---------------------------- MODULE Spec2Model ----------------------------
(***************************************************************************)
(* A model of the detailed placer's import and of the wire decoder:        *)
(*   - odb::getPrevPoint, the backward walker over a wire opcode stream;   *)
(*   - dpo::edge_calc::difference, the 1-D interval complement sweep;      *)
(*   - dpo::Optdp::improvePlacement and the import() it calls:             *)
(*     setupMasterPowers, createNetwork with getMaster,                    *)
(*     createArchitecture and setUpPlacementGroups.                        *)
(* Each subsystem has its own specifications; the variables of the other   *)
(* subsystems stay idle in them.                                           *)
(***************************************************************************)
EXTENDS Integers, Sequences, FiniteSets, TLC

VARIABLES
  \* ---- getPrevPoint: the arguments and locals of one call
  opcodes,      \* O& opcodes : index -> op-byte (0..255)
  data,         \* D& data    : index -> operand
  idx,          \* int idx
  get_layer,    \* bool get_layer
  look_for_x,   \* bool look_for_x
  look_for_y,   \* bool look_for_y
  pnt,          \* WirePoint& pnt : [_x, _y, _layer]
  pc,           \* "walk" (at label prevOpCode), "returned", "aborted"
  idx0,         \* history: the idx the call was entered with
  get_layer0,   \* history: the get_layer the call was entered with
  visited,      \* history: the stream positions read so far, in the order
                \* of their first read
  \* ---- edge_calc::difference: one call
  parent_segment,  \* const Rect& parent_segment
  segs,            \* const std::vector<Rect>& segs
  result,          \* the returned std::vector<Rect>
  dpc,             \* "call" or "done"
  \* ---- Optdp::createNetwork
  db,           \* the database snapshot (instances, nets, terminals)
  dbOrder,      \* the order the database iterated nets/terminals in, last run
  network_,     \* Network* network_ : nodes, edges, pins
  instMap_,     \* std::unordered_map<dbInst*, Node*>
  termMap_,     \* std::unordered_map<dbBTerm*, Node*>
  netMap_,      \* std::unordered_map<dbNet*, Edge*>
  masterMap_,   \* std::unordered_map<dbMaster*, Master*>
  counts,       \* nNodes, nTerminals, nEdges, nPins of the counting pass
  filled,       \* n, e, p reached by the filling pass
  err,          \* 0, or the code of the logger_->error that aborted the run
  runs,         \* number of createNetwork runs so far (capped)
  \* ---- Optdp::import: setupMasterPowers, createArchitecture
  block,        \* the block of the database: core area, rows, masters,
                \* special wires, groups
  pwrLayers_,   \* std::unordered_set<dbTechLayer*> pwrLayers_
  gndLayers_,   \* std::unordered_set<dbTechLayer*> gndLayers_
  masterPwrs_,  \* std::unordered_map<dbMaster*, std::pair<int, int>>
  arch_,        \* Architecture* arch_ : rows, surrounding box, regions
  warn,         \* the logger_->warn messages so far
  ipc,          \* the call of import() that comes next
  \* ---- Optdp::improvePlacement
  rpc,          \* the part of improvePlacement that comes next
  script_,      \* dtParams.script_, the commands not yet run
  steps,        \* history: the parts of the run so far, in their order
  writes,       \* history: the calls of setters of instances so far
  hpwlBefore,   \* const int64_t hpwlBefore
  hpwlAfter,    \* const int64_t hpwlAfter
  disallow_one_site_gaps,  \* const bool disallow_one_site_gaps
  hpwlLegal,    \* history: the wirelength of the network when the
                \* legalizer was done
  db0           \* history: the database when improvePlacement was entered

wireVars == <<opcodes, data, idx, get_layer, look_for_x, look_for_y, pnt, pc,
              idx0, get_layer0, visited>>
diffVars == <<parent_segment, segs, result, dpc>>
netVars  == <<db, dbOrder, network_, instMap_, termMap_, netMap_,
              masterMap_, counts, filled, err, runs>>
impVars  == <<block, pwrLayers_, gndLayers_, masterPwrs_, arch_, warn, ipc>>
runVars  == <<rpc, script_, steps, hpwlBefore, hpwlAfter,
              disallow_one_site_gaps, hpwlLegal, db0>>
vars == <<wireVars, diffVars, netVars, impVars, runVars, writes>>
notWire == <<diffVars, netVars, impVars, runVars, writes>>
notDiff == <<wireVars, netVars, impVars, runVars, writes>>
notNet  == <<wireVars, diffVars, impVars, runVars, writes>>

---------------------------------------------------------------------------
(* Bounds of the model. *)
MaxLen == 4        \* greatest length of the opcode stream
MaxPos == 3        \* greatest coordinate of a segment end
MaxSegs == 3       \* greatest number of child segments
MaxInsts == 2      \* number of instances of the block
MaxNets == 2       \* number of nets of the block
MaxBTerms == 1     \* number of terminals of the block
MaxRuns == 2       \* number of createNetwork runs followed
MaxRows == 2       \* greatest number of rows of the block
MaxCore == 1       \* greatest offset of the core area from the origin
MaxRailX == 4      \* right end of a special-wire box
MaxGroups == 2     \* greatest number of groups of the block
MaxX == 3          \* greatest site of the row a cell is put on
CellWidth == 2     \* width of a master, in sites

---------------------------------------------------------------------------
(***************************************************************************)
(* dbWireCodec opcode definitions.                                         *)
(***************************************************************************)
WOP_OPCODE_MASK == 31
WOP_PATH == 0
WOP_SHORT == 1
WOP_JUNCTION == 2
WOP_RULE == 3
WOP_X == 4
WOP_Y == 5
WOP_COLINEAR == 6
WOP_VIA == 7
WOP_TECH_VIA == 8
WOP_NOP == 15
WOP_VIA_EXIT_TOP == 128
WOP_DEFAULT_WIDTH == 64
WOP_EXTENSION == 128
WOP_BLOCK_RULE == 128
WOP_COVER == 32
WOP_ROUTED == 96

\* OpField with a 6-bit mask: the wire-type bit 0x20 leaks into the opcode
OpField_wide(opcode) == opcode % 64

\* opcode & mask, for an unsigned char opcode and a mask 2^k - 1
OpField(opcode) == opcode % (WOP_OPCODE_MASK + 1)

\* opcode & flag # 0, for a one-bit flag
FlagSet(opcode, flag) == (opcode \div flag) % 2 = 1

(***************************************************************************)
(* The database objects a layer-bearing opcode refers to.  nullptr is 0.   *)
(* A tech layer is named by its id; dbVia 1 joins layers 1 (bottom) and 2  *)
(* (top), dbTechVia 1 joins layers 3 (bottom) and 4 (top).                 *)
(***************************************************************************)
nullptr == 0
getTechLayer(id) == id
ViaBottomLayer(v) == v
ViaTopLayer(v) == v + 1
TechViaBottomLayer(v) == v + 2
TechViaTopLayer(v) == v + 3

\* WirePoint after lines 97-99
NullPoint == [_x |-> 0, _y |-> 0, _layer |-> nullptr]

\* The locals of a call entered with (idx, get_layer): lines 93-99.
Entry(i, gl) ==
  [idx |-> i, get_layer |-> gl, look_for_x |-> TRUE, look_for_y |-> TRUE,
   pnt |-> NullPoint, pc |-> "walk"]

\* ZASSERT(cond): a failed assertion ends the call without returning.
ZASSERT(w, cond) == IF cond THEN w ELSE [w EXCEPT !.pc = "aborted"]

\* PrevOp that forgets the decrement: the walk reads the same slot again
PrevOp_stuck(w) == w

\* --idx; goto prevOpCode;
PrevOp(w) == [w EXCEPT !.idx = w.idx - 1]

\* case WOP_PATH, case WOP_SHORT
CasePathShort(w, operand) ==
  IF w.get_layer
  THEN LET w1 == [w EXCEPT !.pnt._layer = getTechLayer(operand)] IN
       IF (w1.look_for_x = FALSE) /\ (w1.look_for_y = FALSE)
       THEN [w1 EXCEPT !.pc = "returned"]
       ELSE PrevOp([w1 EXCEPT !.get_layer = FALSE])
  ELSE PrevOp(w)

\* CaseJunction that treats the target as already consumed
CaseJunction_skip(w, operand) == [w EXCEPT !.idx = operand - 1]

\* case WOP_JUNCTION
CaseJunction(w, operand) == [w EXCEPT !.idx = operand]

\* CaseX without the look_for_x guard: a later X overwrites the coordinate
CaseX_overwrite(w, operand) ==
  LET w1 == [w EXCEPT !.look_for_x = FALSE, !.pnt._x = operand] IN
  IF (w1.look_for_y = FALSE) /\ (w1.get_layer = FALSE)
  THEN [w1 EXCEPT !.pc = "returned"]
  ELSE PrevOp(w1)

\* case WOP_X
CaseX(w, operand) ==
  IF w.look_for_x
  THEN LET w1 == [w EXCEPT !.look_for_x = FALSE, !.pnt._x = operand] IN
       IF (w1.look_for_y = FALSE) /\ (w1.get_layer = FALSE)
       THEN [w1 EXCEPT !.pc = "returned"]
       ELSE PrevOp(w1)
  ELSE PrevOp(w)

\* CaseY whose return test forgets the pending layer request
CaseY_early(w, operand) ==
  IF w.look_for_y
  THEN LET w1 == [w EXCEPT !.look_for_y = FALSE, !.pnt._y = operand] IN
       IF w1.look_for_x = FALSE
       THEN [w1 EXCEPT !.pc = "returned"]
       ELSE PrevOp(w1)
  ELSE PrevOp(w)

\* case WOP_Y
CaseY(w, operand) ==
  IF w.look_for_y
  THEN LET w1 == [w EXCEPT !.look_for_y = FALSE, !.pnt._y = operand] IN
       IF (w1.look_for_x = FALSE) /\ (w1.get_layer = FALSE)
       THEN [w1 EXCEPT !.pc = "returned"]
       ELSE PrevOp(w1)
  ELSE PrevOp(w)

\* CaseVia that ignores the exit-top flag and always takes the bottom layer
CaseVia_bottom(w, opcode, operand) ==
  IF w.get_layer
  THEN LET w1 == [w EXCEPT !.pnt._layer = ViaBottomLayer(operand)] IN
       IF (w1.look_for_x = FALSE) /\ (w1.look_for_y = FALSE)
       THEN [w1 EXCEPT !.pc = "returned"]
       ELSE PrevOp([w1 EXCEPT !.get_layer = FALSE])
  ELSE PrevOp(w)

\* case WOP_VIA
CaseVia(w, opcode, operand) ==
  IF w.get_layer
  THEN LET w1 == [w EXCEPT !.pnt._layer =
                     IF FlagSet(opcode, WOP_VIA_EXIT_TOP)
                     THEN ViaTopLayer(operand)
                     ELSE ViaBottomLayer(operand)] IN
       IF (w1.look_for_x = FALSE) /\ (w1.look_for_y = FALSE)
       THEN [w1 EXCEPT !.pc = "returned"]
       ELSE PrevOp([w1 EXCEPT !.get_layer = FALSE])
  ELSE PrevOp(w)

\* case WOP_TECH_VIA
CaseTechVia(w, opcode, operand) ==
  IF w.get_layer
  THEN LET w1 == [w EXCEPT !.pnt._layer =
                     IF FlagSet(opcode, WOP_VIA_EXIT_TOP)
                     THEN TechViaTopLayer(operand)
                     ELSE TechViaBottomLayer(operand)] IN
       IF (w1.look_for_x = FALSE) /\ (w1.look_for_y = FALSE)
       THEN [w1 EXCEPT !.pc = "returned"]
       ELSE PrevOp([w1 EXCEPT !.get_layer = FALSE])
  ELSE PrevOp(w)

\* CaseDefault that returns at the start of the stream instead of walking
\* off it
CaseDefault_stop(w) ==
  IF w.idx = 0 THEN [w EXCEPT !.pc = "returned"] ELSE PrevOp(w)

\* default:
CaseDefault(w) == PrevOp(w)

\* Switch on the whole op-byte, flags included
Switch_nomask(w, opcode, operand) ==
  CASE opcode = WOP_PATH \/ opcode = WOP_SHORT -> CasePathShort(w, operand)
    [] opcode = WOP_JUNCTION -> CaseJunction(w, operand)
    [] opcode = WOP_X        -> CaseX(w, operand)
    [] opcode = WOP_Y        -> CaseY(w, operand)
    [] opcode = WOP_VIA      -> CaseVia(w, opcode, operand)
    [] opcode = WOP_TECH_VIA -> CaseTechVia(w, opcode, operand)
    [] OTHER                 -> CaseDefault(w)

\* switch (opcode & WOP_OPCODE_MASK)
Switch(w, opcode, operand) ==
  LET op == OpField(opcode) IN
  CASE op = WOP_PATH \/ op = WOP_SHORT -> CasePathShort(w, operand)
    [] op = WOP_JUNCTION               -> CaseJunction(w, operand)
    [] op = WOP_X                      -> CaseX(w, operand)
    [] op = WOP_Y                      -> CaseY(w, operand)
    [] op = WOP_VIA                    -> CaseVia(w, opcode, operand)
    [] op = WOP_TECH_VIA               -> CaseTechVia(w, opcode, operand)
    [] OTHER                           -> CaseDefault(w)

\* One pass from the label prevOpCode to the next goto or return, over the
\* stream (ops, dat).
Step(ops, dat, w) ==
  LET a == ZASSERT(w, w.idx >= 0) IN
  IF a.pc = "aborted" THEN a ELSE Switch(w, ops[w.idx], dat[w.idx])

\* A walk that ends never repeats a (idx, flags) state, so it ends within
\* this many passes.
MaxSteps(ops) == 8 * (Cardinality(DOMAIN ops) + 1)

\* The whole call: passes repeated until a return or a failed assertion
\* (the result keeps pc = "walk" if the walk does not end).
RECURSIVE Iterate(_, _, _, _)
Iterate(ops, dat, w, fuel) ==
  IF w.pc # "walk" \/ fuel = 0 THEN w
  ELSE Iterate(ops, dat, Step(ops, dat, w), fuel - 1)

getPrevPoint(ops, dat, i, gl) == Iterate(ops, dat, Entry(i, gl), MaxSteps(ops))

---------------------------------------------------------------------------
(***************************************************************************)
(* odb::Rect, as far as edge_calc uses it.                                 *)
(***************************************************************************)
\* Rect(x1, y1, x2, y2)
Rect(x1, y1, x2, y2) ==
  [xlo |-> IF x1 <= x2 THEN x1 ELSE x2, ylo |-> IF y1 <= y2 THEN y1 ELSE y2,
   xhi |-> IF x1 <= x2 THEN x2 ELSE x1, yhi |-> IF y1 <= y2 THEN y2 ELSE y1]

xMin(r) == r.xlo
yMin(r) == r.ylo
xMax(r) == r.xhi
yMax(r) == r.yhi

\* Rect::intersects(const Rect&): the rectangles share a point, touching
\* ones included.
intersects(a, b) ==
  /\ b.xhi >= a.xlo /\ b.xlo <= a.xhi
  /\ b.yhi >= a.ylo /\ b.ylo <= a.yhi

\* Rect::merge(const Rect&): the bounding box of both.
merge(a, b) ==
  [xlo |-> IF a.xlo <= b.xlo THEN a.xlo ELSE b.xlo,
   ylo |-> IF a.ylo <= b.ylo THEN a.ylo ELSE b.ylo,
   xhi |-> IF a.xhi >= b.xhi THEN a.xhi ELSE b.xhi,
   yhi |-> IF a.yhi >= b.yhi THEN a.yhi ELSE b.yhi]

(***************************************************************************)
(* edge_calc::difference                                                   *)
(***************************************************************************)
\* bool is_horizontal
IsHorizontal(parent) == yMin(parent) = yMax(parent)

\* The orders a set of positions can be put in.
RECURSIVE Orders(_)
Orders(S) ==
  IF S = {} THEN {<<>>}
  ELSE UNION {{<<i>> \o q : q \in Orders(S \ {i})} : i \in S}

\* the comparator of the sort
SegLess(a, b, is_horizontal) ==
  IF is_horizontal THEN xMin(a) < xMin(b) ELSE yMin(a) < yMin(b)

\* std::sort: the orders it may leave the segments in (segments the
\* comparator does not separate come out in any order).
SortOutcomes(v, is_horizontal) ==
  {[i \in 1 .. Len(v) |-> v[q[i]]] :
     q \in {r \in Orders(1 .. Len(v)) :
              \A i \in 1 .. (Len(v) - 1) :
                ~ SegLess(v[r[i + 1]], v[r[i]], is_horizontal)}}

\* A merge loop that never merges
MergeOverlapping_none(sorted_segs) == sorted_segs

\* The merge loop: done holds the segments up to and including prev_seg,
\* rest the segments from curr_seg on.
RECURSIVE MergeLoop(_, _)
MergeLoop(done, rest) ==
  IF rest = <<>> THEN done
  ELSE LET prev_seg == done[Len(done)]
           curr_seg == Head(rest)
       IN  IF intersects(curr_seg, prev_seg)
           THEN MergeLoop([done EXCEPT ![Len(done)] = merge(prev_seg, curr_seg)],
                          Tail(rest))
           ELSE MergeLoop(Append(done, curr_seg), Tail(rest))

MergeOverlapping(sorted_segs) ==
  MergeLoop(<<Head(sorted_segs)>>, Tail(sorted_segs))

\* result.emplace_back(...) of a gap from a to b along the parent
GapRect(parent, a, b, is_horizontal) ==
  IF is_horizontal
  THEN Rect(a, yMin(parent), b, yMax(parent))
  ELSE Rect(xMin(parent), a, xMax(parent), b)

\* The sweep over the merged segments: the gaps found, and current_pos.
RECURSIVE GapLoop(_, _, _, _, _)
GapLoop(parent, merged, current_pos, res, is_horizontal) ==
  IF merged = <<>> THEN [result |-> res, current_pos |-> current_pos]
  ELSE LET seg == Head(merged)
           seg_start == IF is_horizontal THEN xMin(seg) ELSE yMin(seg)
           seg_end == IF is_horizontal THEN xMax(seg) ELSE yMax(seg)
       IN  GapLoop(parent, Tail(merged), seg_end,
                   IF seg_start > current_pos
                   THEN Append(res, GapRect(parent, current_pos, seg_start,
                                            is_horizontal))
                   ELSE res,
                   is_horizontal)

\* A trailing gap that is emitted even when it is empty
TrailingGap_always(parent, current_pos, res, is_horizontal) ==
  LET end == IF is_horizontal THEN xMax(parent) ELSE yMax(parent) IN
  IF current_pos <= end
  THEN Append(res, GapRect(parent, current_pos, end, is_horizontal))
  ELSE res

\* Add the remaining end segment if it exists
TrailingGap(parent, current_pos, res, is_horizontal) ==
  LET end == IF is_horizontal THEN xMax(parent) ELSE yMax(parent) IN
  IF current_pos < end
  THEN Append(res, GapRect(parent, current_pos, end, is_horizontal))
  ELSE res

\* difference, from the sorted copy of segs on
differenceSorted(parent, sorted_segs) ==
  LET is_horizontal == IsHorizontal(parent)
      start == IF is_horizontal THEN xMin(parent) ELSE yMin(parent)
      sweep == GapLoop(parent, MergeOverlapping(sorted_segs), start, <<>>,
                       is_horizontal)
  IN  TrailingGap(parent, sweep.current_pos, sweep.result, is_horizontal)

\* difference(parent_segment, segs): the lists the call may return
difference(parent, v) ==
  IF v = <<>> THEN {<<parent>>}
  ELSE {differenceSorted(parent, sorted_segs) :
          sorted_segs \in SortOutcomes(v, IsHorizontal(parent))}

---------------------------------------------------------------------------
(***************************************************************************)
(* The database, as far as createNetwork reads it.  d is the snapshot:     *)
(*   d.kind[inst]    "cell" (placeable), "fixed" (placeable and fixed) or  *)
(*                   "pad" (its master is not core-auto-placeable);        *)
(*   d.orient[inst]  the orientation of the instance;                      *)
(*   d.supply        the nets whose signal type is a supply;               *)
(*   d.btermNet[b]   the net of terminal b, or nullptr.                    *)
(* Every instance has one iterm on every net.  o is the order the          *)
(* database hands its sets out in: o.nets, o.bterms, o.iterms.             *)
(***************************************************************************)
Insts == 1 .. MaxInsts
Nets == 1 .. MaxNets
BTerms == 1 .. MaxBTerms

\* dbInst::getName(): instance names are distinct
getName(inst) == inst

\* inst->getMaster()->isCoreAutoPlaceable()
isCoreAutoPlaceable(d, inst) == d.kind[inst] # "pad"

\* inst->isFixed()
isFixed(d, inst) == d.kind[inst] = "fixed"

\* net->getSigType().isSupply()
isSupply(d, net) == net \in d.supply

\* bterm->getNet()
getNet(d, bterm) == d.btermNet[bterm]

\* net->getITerms(): the instances of the net's iterms, in database order
getITerms(d, o, net) == o.iterms

\* net->getBTerms(): the terminals of the net, in database order
getBTerms(d, o, net) ==
  SelectSeq(o.bterms, LAMBDA bterm : getNet(d, bterm) = net)

(***************************************************************************)
(* Network, as far as createNetwork uses it.                               *)
(***************************************************************************)
\* network_ = new Network
NewNetwork ==
  [nodes |-> <<>>, edges |-> <<>>, pins |-> <<>>, masters |-> <<>>]

\* The Master* nullptr
NullMaster == [gen |-> 0, idx |-> 0]

\* createAndAddNode(): a node nothing is filled into yet
BlankNode ==
  [id |-> -1, type |-> "UNKNOWN", obj |-> nullptr, orient |-> "R0",
   group |-> 0, left |-> 0, bottom |-> 0, width |-> 0, height |-> 0,
   topPower |-> "UNK", bottomPower |-> "UNK", master |-> NullMaster]

\* createAndAddEdge(): an edge nothing is filled into yet
BlankEdge == [id |-> -1, obj |-> nullptr]

\* createAndAddPin(node, edge): the new pin takes the next pin id
createAndAddPin(pins, n, e) ==
  Append(pins, [id |-> Len(pins), node |-> n, edge |-> e])

\* m[key] = value of an unordered_map
MapPut(m, key, value) ==
  [k \in DOMAIN m \cup {key} |-> IF k = key THEN value ELSE m[k]]

\* std::numeric_limits<int>::max() and ::min()
INT_MAX == 2147483647
INT_MIN == -INT_MAX - 1

\* Architecture::Row::Power_UNK, Power_VDD, Power_VSS
Power_UNK == "UNK"
Power_VDD == "VDD"
Power_VSS == "VSS"

\* std::min and std::max of a start value and the values of a set
MinOf(S, start) ==
  IF \E x \in S : x < start
  THEN CHOOSE x \in S : \A y \in S : x <= y
  ELSE start
MaxOf(S, start) ==
  IF \E x \in S : x > start
  THEN CHOOSE x \in S : \A y \in S : y <= x
  ELSE start

\* The int division of C++: the quotient is truncated toward zero.
Quot(a, b) == IF a >= 0 THEN a \div b ELSE -((-a) \div b)

\* min_row_height: the least site height over all rows
min_row_height(rows) ==
  MinOf({rows[i].site.height : i \in DOMAIN rows}, INT_MAX)

(***************************************************************************)
(* edge_calc::getBoundarySegment and Optdp::getMaster.  A database master  *)
(* d.lib[m] is its type, its placement boundary, its height and width and  *)
(* its edge types; an edge type is its direction, its name, its range      *)
(* (-1: none), its cell row and its half row (-1: none).  d.table is the   *)
(* cell-edge spacing table of the DRC engine: has (the table is present)   *)
(* and idx (the index of every edge type name the table defines).  A       *)
(* Master* is [gen, idx]: entry idx of the master list of the Network made *)
(* by run gen.                                                             *)
(***************************************************************************)
\* Rect::set_xlo, set_xhi, set_ylo, set_yhi
set_xlo(r, x) == [r EXCEPT !.xlo = x]
set_xhi(r, x) == [r EXCEPT !.xhi = x]
set_ylo(r, y) == [r EXCEPT !.ylo = y]
set_yhi(r, y) == [r EXCEPT !.yhi = y]

\* Rect::dy
Rect_dy(r) == yMax(r) - yMin(r)

\* std::min
Min(a, b) == IF a <= b THEN a ELSE b

\* std::lround(a / (double) b), for a >= 0 and b > 0
lround(a, b) == (2 * a + b) \div (2 * b)

\* edge_calc::getBoundarySegment
getBoundarySegment(bbox, dir) ==
  CASE dir = "RIGHT"  -> set_xlo(bbox, xMax(bbox))
    [] dir = "LEFT"   -> set_xhi(bbox, xMin(bbox))
    [] dir = "TOP"    -> set_ylo(bbox, yMax(bbox))
    [] dir = "BOTTOM" -> set_yhi(bbox, yMin(bbox))

\* odb::dbMasterEdgeType::EdgeDir, in the order of dir_idx
EdgeDirs == <<"TOP", "RIGHT", "LEFT", "BOTTOM">>

\* drc_engine_->hasCellEdgeSpacingTable()
hasCellEdgeSpacingTable(d) == d.table.has

\* drc_engine_->getEdgeTypeIdx(name)
getEdgeTypeIdx(d, name) ==
  IF name \in DOMAIN d.table.idx THEN d.table.idx[name] ELSE -1

\* int num_rows
num_rows(db_master, rows) == lround(db_master.height, min_row_height(rows))

\* The range of a TOP or BOTTOM edge type
RangeSegment(edge_rect, edge) ==
  IF edge.rangeBegin # -1
  THEN LET lo == set_xlo(edge_rect, xMin(edge_rect) + edge.rangeBegin)
       IN  set_xhi(lo, xMin(lo) + edge.rangeEnd)
  ELSE edge_rect

\* The cell row or the half row of a LEFT or RIGHT edge type
RowSegment(edge_rect, edge, rows) ==
  LET row_height == Quot(Rect_dy(edge_rect), rows)
      half_row_height == Quot(row_height, 2)
  IN  IF edge.cellRow # -1
      THEN LET lo == set_ylo(edge_rect,
                             yMin(edge_rect) + (edge.cellRow - 1) * row_height)
           IN  set_yhi(lo, Min(yMax(lo), yMin(lo) + row_height))
      ELSE IF edge.halfRow # -1
      THEN LET lo == set_ylo(edge_rect,
                             yMin(edge_rect)
                               + (edge.halfRow - 1) * half_row_height)
           IN  set_yhi(lo, Min(yMax(lo), yMin(lo) + half_row_height))
      ELSE edge_rect

\* Rect edge_rect of one edge type, as pushed on typed_segs[dir]
EdgeRect(db_master, edge, rows) ==
  LET edge_rect == getBoundarySegment(db_master.bbox, edge.dir) IN
  IF edge.dir = "TOP" \/ edge.dir = "BOTTOM"
  THEN RangeSegment(edge_rect, edge)
  ELSE RowSegment(edge_rect, edge, num_rows(db_master, rows))

\* typed_segs[dir] after the loop over the edge types
TypedSegs(db_master, rows, dir) ==
  LET of == SelectSeq(db_master.edges, LAMBDA edge : edge.dir = dir)
  IN  [k \in DOMAIN of |-> EdgeRect(db_master, of[k], rows)]

\* The edges the loop over the edge types adds: only those of edge types
\* the spacing table defines
TypedEdges(d, db_master, rows) ==
  LET known == SelectSeq(db_master.edges,
                         LAMBDA edge : getEdgeTypeIdx(d, edge.type) # -1)
  IN  [k \in DOMAIN known |->
         [type |-> getEdgeTypeIdx(d, known[k].type),
          rect |-> EdgeRect(db_master, known[k], rows)]]

\* The DEFAULT edges of one direction: the lists the loop may add
DefaultEdges(d, db_master, rows, dir) ==
  {[k \in DOMAIN default_segs |->
      [type |-> getEdgeTypeIdx(d, "DEFAULT"), rect |-> default_segs[k]]] :
     default_segs \in difference(getBoundarySegment(db_master.bbox, dir),
                                 TypedSegs(db_master, rows, dir))}

\* The Master the call of getMaster that misses the map builds: the objects
\* it may be
BuildMaster(d, db_master, rows) ==
  LET bare == [bbox |-> db_master.bbox, edges |-> <<>>] IN
  IF ~ hasCellEdgeSpacingTable(d) THEN {bare}
  ELSE IF db_master.type = "CORE_SPACER" THEN {bare}
  ELSE IF getEdgeTypeIdx(d, "DEFAULT") = -1
  THEN {[bare EXCEPT !.edges = TypedEdges(d, db_master, rows)]}
  ELSE {[bare EXCEPT !.edges = TypedEdges(d, db_master, rows)
                                 \o e1 \o e2 \o e3 \o e4] :
          e1 \in DefaultEdges(d, db_master, rows, EdgeDirs[1]),
          e2 \in DefaultEdges(d, db_master, rows, EdgeDirs[2]),
          e3 \in DefaultEdges(d, db_master, rows, EdgeDirs[3]),
          e4 \in DefaultEdges(d, db_master, rows, EdgeDirs[4])}

\* The objects one run may build, one for every database master
Builds(d, rows) ==
  {built \in [DOMAIN d.lib -> UNION {BuildMaster(d, d.lib[m], rows) :
                                       m \in DOMAIN d.lib}] :
     \A m \in DOMAIN d.lib : built[m] \in BuildMaster(d, d.lib[m], rows)}

\* getMaster(db_master): m is the database master, gen the run, built[m]
\* the object the call builds if it misses the map, st is [ret, masterMap,
\* masters]: the returned Master*, masterMap_ and the masters of network_.
getMaster(m, d, gen, built, st) ==
  IF m \in DOMAIN st.masterMap
  THEN [st EXCEPT !.ret = st.masterMap[m]]
  ELSE LET master == [gen |-> gen, idx |-> Len(st.masters) + 1]
       IN  [ret |-> IF hasCellEdgeSpacingTable(d)
                       /\ d.lib[m].type = "CORE_SPACER"
                    THEN NullMaster ELSE master,
            masterMap |-> MapPut(st.masterMap, m, master),
            masters |-> Append(st.masters, built[m])]

(***************************************************************************)
(* Optdp::createNetwork                                                    *)
(***************************************************************************)
\* The instances left as the database hands them out
SortedInsts_unsorted(block_insts) == block_insts

\* std::stable_sort(insts.begin(), insts.end(), by name)
RECURSIVE SortedInsts(_)
SortedInsts(block_insts) ==
  IF block_insts = <<>> THEN <<>>
  ELSE LET n == Len(block_insts)
           front == SortedInsts(SubSeq(block_insts, 1, n - 1))
           last == block_insts[n]
           \* last goes behind every instance whose name is not greater
           k == Cardinality({j \in 1 .. Len(front) :
                               ~ (getName(last) < getName(front[j]))})
       IN  SubSeq(front, 1, k) \o <<last>> \o SubSeq(front, k + 1, Len(front))

\* nNodes
CountNodes(d, insts) ==
  Len(SelectSeq(insts, LAMBDA inst : isCoreAutoPlaceable(d, inst)))

\* A pin count that takes the iterms of every instance
CountPinsOf_all(d, o, net) ==
  Len(getITerms(d, o, net)) + Len(getBTerms(d, o, net))

\* what one net adds to nPins
CountPinsOf(d, o, net) ==
  Len(SelectSeq(getITerms(d, o, net),
                LAMBDA inst : isCoreAutoPlaceable(d, inst)))
    + Len(getBTerms(d, o, net))

\* nEdges and nPins
RECURSIVE CountNets(_, _, _, _)
CountNets(d, o, nets, c) ==
  IF nets = <<>> THEN c
  ELSE LET net == Head(nets) IN
       IF isSupply(d, net) THEN CountNets(d, o, Tail(nets), c)
       ELSE CountNets(d, o, Tail(nets),
                      [nEdges |-> c.nEdges + 1,
                       nPins |-> c.nPins + CountPinsOf(d, o, net)])

\* the terminals that become nodes
IsTerminal(d, bterm) ==
  LET net == getNet(d, bterm) IN ~ (net = nullptr \/ isSupply(d, net))

\* nTerminals
CountTerminals(d, o) ==
  Len(SelectSeq(o.bterms, LAMBDA bterm : IsTerminal(d, bterm)))

\* Return instances to a north orientation.
ResetOrient(d, insts) ==
  [d EXCEPT !.orient =
     [inst \in DOMAIN d.orient |->
        IF (~ isCoreAutoPlaceable(d, inst)) \/ isFixed(d, inst)
           \/ (\A j \in 1 .. Len(insts) : insts[j] # inst)
        THEN d.orient[inst] ELSE "R0"]]

\* The calls of inst->setLocationOrient the loop above makes
ResetCalls(d, insts) ==
  LET reset == SelectSeq(insts, LAMBDA inst :
                 ~ ((~ isCoreAutoPlaceable(d, inst)) \/ isFixed(d, inst)))
  IN  [k \in DOMAIN reset |->
         [inst |-> reset[k], call |-> "setLocationOrient"]]

\* bterm->getBBox()
getBBox(d, bterm) ==
  Rect(d.btermLoc[bterm].x, d.btermLoc[bterm].y,
       d.btermLoc[bterm].x + d.btermSize[bterm].w,
       d.btermLoc[bterm].y + d.btermSize[bterm].h)

\* CellFields with the pair of masterPwrs_ read the wrong way round
CellFields_swapped(d, core, masterPwrs, inst) ==
  LET master == d.master[inst] IN
  [left |-> d.loc[inst].x - core.xMin,
   bottom |-> d.loc[inst].y - core.yMin,
   width |-> d.lib[master].width,
   height |-> d.lib[master].height,
   bottomPower |-> IF master \in DOMAIN masterPwrs
                   THEN masterPwrs[master][1] ELSE Power_UNK,
   topPower |-> IF master \in DOMAIN masterPwrs
                THEN masterPwrs[master][2] ELSE Power_UNK]

\* What the loop over the instances fills into the node of one instance,
\* besides its id and its master
CellFields(d, core, masterPwrs, inst) ==
  LET master == d.master[inst] IN
  [left |-> d.loc[inst].x - core.xMin,
   bottom |-> d.loc[inst].y - core.yMin,
   width |-> d.lib[master].width,
   height |-> d.lib[master].height,
   bottomPower |-> IF master \in DOMAIN masterPwrs
                   THEN masterPwrs[master][2] ELSE Power_UNK,
   topPower |-> IF master \in DOMAIN masterPwrs
                THEN masterPwrs[master][1] ELSE Power_UNK]

\* What the loop over the terminals fills into the node of one terminal,
\* besides its id
TerminalFields(d, core, bterm) ==
  LET ww == xMax(getBBox(d, bterm)) - xMin(getBBox(d, bterm))
      hh == yMax(getBBox(d, bterm)) - yMax(getBBox(d, bterm))
  IN  [left |-> xMin(getBBox(d, bterm)) - core.xMin,
       bottom |-> yMin(getBBox(d, bterm)) - core.yMin,
       width |-> ww, height |-> hh,
       bottomPower |-> Power_UNK, topPower |-> Power_UNK]

\* Populate nodes: st is [nodes, map, n, masterMap, masters]; fields is
\* what is filled into the node of each object; objs are the instances
\* (type CELL, map instMap_) or the terminals (type TERMINAL, map termMap_)
\* that become nodes, in the order they are visited; the node of an
\* instance gets the Master* that getMaster returns for its master.
RECURSIVE PopulateNodes(_, _, _, _, _, _, _)
PopulateNodes(objs, type, fields, d, gen, built, st) ==
  IF objs = <<>> THEN st
  ELSE LET obj == Head(objs)
           g == IF type = "CELL"
                THEN getMaster(d.master[obj], d, gen, built,
                               [ret |-> NullMaster, masterMap |-> st.masterMap,
                                masters |-> st.masters])
                ELSE [ret |-> NullMaster, masterMap |-> st.masterMap,
                      masters |-> st.masters]
       IN  PopulateNodes(
             Tail(objs), type, fields, d, gen, built,
             [nodes |-> IF st.n + 1 \in DOMAIN st.nodes
                        THEN [st.nodes EXCEPT ![st.n + 1] =
                                [@ EXCEPT !.id = st.n, !.type = type,
                                          !.obj = obj, !.orient = "R0",
                                          !.master = IF type = "CELL"
                                                     THEN g.ret ELSE @,
                                          !.left = fields[obj].left,
                                          !.bottom = fields[obj].bottom,
                                          !.width = fields[obj].width,
                                          !.height = fields[obj].height,
                                          !.bottomPower = fields[obj].bottomPower,
                                          !.topPower = fields[obj].topPower]]
                        ELSE st.nodes,
              map |-> MapPut(st.map, obj, st.n),
              n |-> st.n + 1,
              masterMap |-> g.masterMap,
              masters |-> g.masters])

\* One loop that connects pins of edge e: objs are the instances of the
\* net's placeable iterms (map instMap_, codes 102 and 103) or the net's
\* terminals (map termMap_, codes 104 and 105); st is [pins, p, err].
RECURSIVE ConnectPins(_, _, _, _, _, _, _)
ConnectPins(objs, map, nodes, edges, e, codes, st) ==
  IF objs = <<>> \/ st.err # 0 THEN st
  ELSE IF Head(objs) \in DOMAIN map
       THEN LET n == map[Head(objs)] IN
            IF nodes[n + 1].id # n \/ edges[e + 1].id # e
            THEN [st EXCEPT !.err = codes[1]]
            ELSE ConnectPins(Tail(objs), map, nodes, edges, e, codes,
                             [st EXCEPT !.pins = createAndAddPin(@, n, e),
                                        !.p = @ + 1])
       ELSE [st EXCEPT !.err = codes[2]]

\* Populate edges and pins: st is [edges, pins, netMap, e, p, err].
RECURSIVE PopulateEdges(_, _, _, _, _, _, _)
PopulateEdges(d, o, nets, nodes, instMap, termMap, st) ==
  IF nets = <<>> \/ st.err # 0 THEN st
  ELSE LET net == Head(nets) IN
       IF isSupply(d, net)
       THEN PopulateEdges(d, o, Tail(nets), nodes, instMap, termMap, st)
       ELSE LET edges == IF st.e + 1 \in DOMAIN st.edges
                         THEN [st.edges EXCEPT ![st.e + 1] =
                                 [id |-> st.e, obj |-> net]]
                         ELSE st.edges
                netMap == MapPut(st.netMap, net, st.e)
                iterms == ConnectPins(
                            SelectSeq(getITerms(d, o, net),
                                      LAMBDA inst : isCoreAutoPlaceable(d, inst)),
                            instMap, nodes, edges, st.e, <<102, 103>>,
                            [pins |-> st.pins, p |-> st.p, err |-> 0])
                bterms == ConnectPins(getBTerms(d, o, net), termMap, nodes,
                                      edges, st.e, <<104, 105>>, iterms)
            IN  PopulateEdges(d, o, Tail(nets), nodes, instMap, termMap,
                              [edges |-> edges, pins |-> bterms.pins,
                               netMap |-> netMap,
                               e |-> IF bterms.err = 0 THEN st.e + 1 ELSE st.e,
                               p |-> bterms.p, err |-> bterms.err])

\* The counting pass: nNodes, nTerminals, nEdges, nPins
CountPass(d, o, insts) ==
  LET c == CountNets(d, o, o.nets, [nEdges |-> 0, nPins |-> 0]) IN
  [nNodes |-> CountNodes(d, insts), nTerminals |-> CountTerminals(d, o),
   nEdges |-> c.nEdges, nPins |-> c.nPins]

\* Create and allocate the nodes and the edges.
Allocate(c) ==
  [NewNetwork EXCEPT
     !.nodes = [k \in 1 .. (c.nNodes + c.nTerminals) |-> BlankNode],
     !.edges = [k \in 1 .. c.nEdges |-> BlankEdge]]

\* Populate nodes, cells first and terminals after them: the nodes, the
\* maps, the masters and n.
PopulateAllNodes(d, core, o, insts, nodes, instMap, termMap, masterPwrs, gen, built, masterMap) ==
  LET cells == PopulateNodes(
                 SelectSeq(insts, LAMBDA inst : isCoreAutoPlaceable(d, inst)),
                 "CELL",
                 [inst \in DOMAIN d.loc |->
                    CellFields(d, core, masterPwrs, inst)],
                 d, gen, built,
                 [nodes |-> nodes, map |-> instMap, n |-> 0,
                  masterMap |-> masterMap, masters |-> <<>>])
      terms == PopulateNodes(
                 SelectSeq(o.bterms, LAMBDA bterm : IsTerminal(d, bterm)),
                 "TERMINAL",
                 [bterm \in DOMAIN d.btermLoc |->
                    TerminalFields(d, core, bterm)],
                 d, gen, built,
                 [nodes |-> cells.nodes, map |-> termMap, n |-> cells.n,
                  masterMap |-> cells.masterMap, masters |-> cells.masters])
  IN  [nodes |-> terms.nodes, instMap |-> cells.map, termMap |-> terms.map,
       n |-> terms.n, masterMap |-> terms.masterMap,
       masters |-> terms.masters]

\* The logger_->error that ends the run, if any: c are the counts of the
\* first pass, n the nodes filled, st the state the edge loop ended in.
ErrorCode(c, n, st) ==
  IF n # c.nNodes + c.nTerminals THEN 101
  ELSE IF st.err # 0 THEN st.err
  ELSE IF st.e # c.nEdges THEN 106
  ELSE IF st.p # c.nPins THEN 107
  ELSE 0

---------------------------------------------------------------------------
(***************************************************************************)
(* The block, as far as setupMasterPowers and createArchitecture read it:  *)
(*   block.core     the lower-left corner of the core area: xMin, yMin;    *)
(*   block.rows     the rows: site (name, class, height, width),           *)
(*                  direction, origin, spacing, site count;                *)
(*   block.masters  the masters, each the list of its mterms: signal type  *)
(*                  and mpins, an mpin being the y centre of its bounding  *)
(*                  box and the layers of its geometry;                    *)
(*   block.rails    the boxes of the special wires, each with its net's    *)
(*                  flags and its wire's type.                             *)
(***************************************************************************)
\* The layers of the geometry of the mpins of the mterms of one signal type
LayersOf(mterms, sig) ==
  UNION {UNION {mterms[t].mpins[p].layers : p \in DOMAIN mterms[t].mpins} :
           t \in {t \in DOMAIN mterms : mterms[t].sig = sig}}

\* The y centres of the mpins of the mterms of one signal type
CentresOf(mterms, sig) ==
  UNION {{mterms[t].mpins[p].y : p \in DOMAIN mterms[t].mpins} :
           t \in {t \in DOMAIN mterms : mterms[t].sig = sig}}

\* The pair {topPwr, botPwr} of one master
MasterPowers(mterms) ==
  LET maxPwr == MaxOf(CentresOf(mterms, "POWER"), INT_MIN)
      minPwr == MinOf(CentresOf(mterms, "POWER"), INT_MAX)
      maxGnd == MaxOf(CentresOf(mterms, "GROUND"), INT_MIN)
      minGnd == MinOf(CentresOf(mterms, "GROUND"), INT_MAX)
      isVdd == \E t \in DOMAIN mterms : mterms[t].sig = "POWER"
      isGnd == \E t \in DOMAIN mterms : mterms[t].sig = "GROUND"
  IN  IF isVdd /\ isGnd
      THEN <<IF maxPwr > maxGnd THEN Power_VDD ELSE Power_VSS,
             IF minPwr < minGnd THEN Power_VDD ELSE Power_VSS>>
      ELSE <<Power_UNK, Power_UNK>>

\* The layers setupMasterPowers inserts into pwrLayers_ ("POWER") or
\* gndLayers_ ("GROUND")
MasterLayers(masters, sig) ==
  UNION {LayersOf(masters[m], sig) : m \in DOMAIN masters}

\* arch_ = new Architecture
NewArchitecture == [rows |-> <<>>, regions |-> <<>>]

\* Architecture::Row::getLeft, getRight, getTop
getLeft(row) == row.subRowOrigin
getRight(row) == row.subRowOrigin + row.numSites * row.siteSpacing
getTop(row) == row.bottom + row.height

\* Rect::moveDelta
moveDelta(r, dx, dy) ==
  Rect(xMin(r) + dx, yMin(r) + dy, xMax(r) + dx, yMax(r) + dy)

\* A row the first two tests of the loop let through: its site is not of
\* class PAD and its direction is HORIZONTAL.
PassesClassAndDirection(row) ==
  row.site.class # "PAD" /\ row.dir = "HORIZONTAL"

\* skip_list: height -> the names of the sites of the rows skipped for it
skip_list_none(rows, min) == <<>>
skip_list(rows, min) ==
  LET tall == {i \in DOMAIN rows : /\ PassesClassAndDirection(rows[i])
                                   /\ rows[i].site.height > min}
  IN  [h \in {rows[i].site.height : i \in tall} |->
         {rows[i].site.name : i \in {j \in tall : rows[j].site.height = h}}]

\* createAndAddRow and the setters that follow it
createAndAddRow(row, core) ==
  [subRowOrigin |-> row.origin.x - core.xMin,
   bottom |-> row.origin.y - core.yMin,
   siteSpacing |-> row.spacing,
   numSites |-> row.count,
   siteWidth |-> row.site.width,
   height |-> row.site.height,
   bottomPower |-> Power_UNK,
   topPower |-> Power_UNK,
   symmetry |-> row.site.symmetry,
   orient |-> row.orient]

\* The rows of the architecture after the first loop
ArchRows(rows, core, min) ==
  LET kept == SelectSeq(rows, LAMBDA row :
                /\ PassesClassAndDirection(row)
                /\ ~ (row.site.height > min))
  IN  [k \in DOMAIN kept |-> createAndAddRow(kept[k], core)]

\* The elements of a set of integers in ascending order (the iteration
\* order of a std::map keyed by int)
RECURSIVE Ascending(_)
Ascending(S) ==
  IF S = {} THEN <<>>
  ELSE LET m == CHOOSE x \in S : \A y \in S : x <= y
       IN  <<m>> \o Ascending(S \ {m})

\* The warnings 108, one for every entry of the skip list
SkipWarnings(skip, min) ==
  LET heights == Ascending(DOMAIN skip)
  IN  [k \in DOMAIN heights |->
         [code |-> 108, sites |-> skip[heights[k]], height |-> heights[k],
          single |-> min]]

\* Get surrounding box.
SurroundingBox(rows) ==
  [minX |-> MinOf({getLeft(rows[r]) : r \in DOMAIN rows}, INT_MAX),
   maxX |-> MaxOf({getRight(rows[r]) : r \in DOMAIN rows}, INT_MIN),
   minY |-> MinOf({rows[r].bottom : r \in DOMAIN rows}, INT_MAX),
   maxY |-> MaxOf({getTop(rows[r]) : r \in DOMAIN rows}, INT_MIN)]

\* One round of the loop that clips a row to [minX, maxX]
ClipRow(row, minX, maxX) ==
  LET endGap == row.siteWidth - row.siteSpacing
      originX == IF getLeft(row) < minX THEN minX ELSE getLeft(row)
      moved == [row EXCEPT !.subRowOrigin = originX]
  IN  IF originX + row.numSites * row.siteSpacing + endGap > maxX
      THEN [moved EXCEPT
              !.numSites = Quot(maxX - endGap - originX, row.siteSpacing)]
      ELSE moved

\* A box of a special wire that the scan goes on with: its net is special
\* and POWER or GROUND, its wire ROUTED, the box HORIZONTAL and no via, and
\* its layer in pwrLayers_ (POWER) or gndLayers_ (GROUND).
ScansBox(rail, pwrLayers, gndLayers) ==
  /\ rail.special
  /\ rail.sig \in {"POWER", "GROUND"}
  /\ rail.wire = "ROUTED"
  /\ rail.dir = "HORIZONTAL"
  /\ ~ rail.via
  /\ IF rail.sig = "POWER" THEN rail.layer \in pwrLayers
     ELSE rail.layer \in gndLayers

\* The innermost loop: the rows a box stamps
StampRow(row, rect, pwr) ==
  LET yb == row.bottom
      yt == getTop(row)
  IN  [row EXCEPT
         !.bottomPower = IF yb >= yMin(rect) /\ yb <= yMax(rect)
                         THEN pwr ELSE @,
         !.topPower = IF yt >= yMin(rect) /\ yt <= yMax(rect)
                      THEN pwr ELSE @]

\* The scan of the special wires
RECURSIVE ScanRails(_, _, _, _, _)
ScanRails(rails, core, pwrLayers, gndLayers, rows) ==
  IF rails = <<>> THEN rows
  ELSE LET rail == Head(rails)
           pwr == IF rail.sig = "POWER" THEN Power_VDD ELSE Power_VSS
           rect == moveDelta(rail.box, core.xMin, core.yMin)
       IN  ScanRails(Tail(rails), core, pwrLayers, gndLayers,
                     IF ScansBox(rail, pwrLayers, gndLayers)
                     THEN [r \in DOMAIN rows |-> StampRow(rows[r], rect, pwr)]
                     ELSE rows)

(***************************************************************************)
(* Optdp::setUpPlacementGroups.  block.groups are the groups of the block:  *)
(* hasRegion says whether getRegion() is non-null, boundaries are the      *)
(* boxes of the region and insts the instances of the group.               *)
(***************************************************************************)
\* Rect::mergeInit(): the rectangle that any merge replaces
mergeInit ==
  [xlo |-> INT_MAX, ylo |-> INT_MAX, xhi |-> INT_MIN, yhi |-> INT_MIN]

\* Default region.
DefaultRegion(arch) ==
  [id |-> 0,
   rects |-> <<Rect(arch.minX, arch.minY, arch.maxX, arch.maxY)>>,
   boundary |-> Rect(arch.minX, arch.minY, arch.maxX, arch.maxY)]

\* One boundary of a region, moved into the core and cut to the
\* architecture
ClipBoundary(boundary, core, arch) ==
  LET box == moveDelta(boundary, -core.xMin, -core.yMin)
  IN  Rect(MaxOf({xMin(box)}, arch.minX), MaxOf({yMin(box)}, arch.minY),
           MinOf({xMax(box)}, arch.maxX), MinOf({yMax(box)}, arch.maxY))

\* bbox after the merges of the rectangles
RECURSIVE MergeAll(_, _)
MergeAll(rects, bbox) ==
  IF rects = <<>> THEN bbox
  ELSE MergeAll(Tail(rects), merge(bbox, Head(rects)))

\* The region made for a group
GroupRegion(group, id, core, arch) ==
  LET rects == [b \in DOMAIN group.boundaries |->
                  ClipBoundary(group.boundaries[b], core, arch)]
  IN  [id |-> id, rects |-> rects, boundary |-> MergeAll(rects, mergeInit)]

\* The test that lets a group claim a node
Unclaimed_always(nd) == TRUE
Unclaimed(nd) == nd.group = 0

\* The instances within this region.
RECURSIVE ClaimNodes(_, _, _, _)
ClaimNodes(insts, id, instMap, nodes) ==
  IF insts = <<>> THEN nodes
  ELSE ClaimNodes(
         Tail(insts), id, instMap,
         IF Head(insts) \in DOMAIN instMap
            /\ Unclaimed(nodes[instMap[Head(insts)] + 1])
         THEN [nodes EXCEPT ![instMap[Head(insts)] + 1].group = id]
         ELSE nodes)

\* The loop over the groups: st is [regions, nodes, count].
RECURSIVE GroupLoop(_, _, _, _, _)
GroupLoop(db_groups, core, arch, instMap, st) ==
  IF db_groups = <<>> THEN st
  ELSE LET db_group == Head(db_groups) IN
       GroupLoop(
         Tail(db_groups), core, arch, instMap,
         IF db_group.hasRegion
         THEN [regions |-> Append(st.regions,
                                  GroupRegion(db_group, st.count, core, arch)),
               nodes |-> ClaimNodes(db_group.insts, st.count, instMap,
                                    st.nodes),
               count |-> st.count + 1]
         ELSE st)

(***************************************************************************)
(* Optdp::improvePlacement and Optdp::updateDbInstLocations.  d.loc[inst]  *)
(* is the location of an instance, the lower-left corner of its bounding   *)
(* box; every master is CellWidth wide and every pin sits on the location  *)
(* of its instance.                                                        *)
(***************************************************************************)
\* max - min of a set of coordinates, 0 for an empty set
Spread(S) ==
  IF S = {} THEN 0
  ELSE (CHOOSE x \in S : \A y \in S : y <= x)
       - (CHOOSE x \in S : \A y \in S : x <= y)

\* odb::WireLengthEvaluator::hpwl(): the half-perimeter wirelength of the
\* nets of the block that are no supply, each joining all instances
hpwl(d) ==
  Cardinality(Nets \ d.supply)
  * (Spread({d.loc[inst].x : inst \in DOMAIN d.loc})
     + Spread({d.loc[inst].y : inst \in DOMAIN d.loc}))

\* if (hpwlBefore == 0)
SkipsRun_never(hpwlBefore_) == FALSE
SkipsRun(hpwlBefore_) == hpwlBefore_ = 0

\* The half-perimeter wirelength the passes work on: that of the edges of
\* the network, each joining all cell nodes
NetworkHpwl(network) ==
  LET cells == {k \in DOMAIN network.nodes : network.nodes[k].type = "CELL"}
  IN  Len(network.edges)
      * (Spread({network.nodes[k].left : k \in cells})
         + Spread({network.nodes[k].bottom : k \in cells}))

\* The nodes the legalizer and the passes may move: the cells that are not
\* fixed
MovableNodes(d, nodes) ==
  {k \in DOMAIN nodes :
     nodes[k].type = "CELL" /\ ~ isFixed(d, nodes[k].obj)}

\* Two nodes overlap: they are in the same row and less than a cell width
\* apart.
Overlap(a, b) ==
  /\ a.bottom = b.bottom
  /\ a.left - b.left < CellWidth /\ b.left - a.left < CellWidth

\* No movable node overlaps another node.
Legal(d, nodes) ==
  \A k \in MovableNodes(d, nodes) : \A j \in DOMAIN nodes :
    (j # k /\ nodes[j].type = "CELL") => ~ Overlap(nodes[k], nodes[j])

\* The placements that put the movable nodes on sites 0 .. MaxX of the row
\* and turn them to one of the given orientations
Placements(d, nodes, orients) ==
  {[k \in DOMAIN nodes |->
      IF k \in MovableNodes(d, nodes)
      THEN [nodes[k] EXCEPT !.left = to[k][1], !.orient = to[k][2]]
      ELSE nodes[k]] :
     to \in [MovableNodes(d, nodes) -> (0 .. MaxX) \X orients]}

\* ShiftLegalizer::legalize: a legal placement is left as it is; otherwise
\* the movable nodes are shifted to a legal placement, if there is one.
legalize(d, nodes) ==
  IF Legal(d, nodes) THEN {nodes}
  ELSE LET shifted == {to \in Placements(d, nodes, {"R0"}) : Legal(d, to)}
       IN  IF shifted = {} THEN {nodes} ELSE shifted

\* The test a pass accepts a placement by
Accepts_any(before, after) == TRUE
Accepts(before, after) == after <= before

\* One pass of Detailed::improve: the placement is kept, or replaced by a
\* legal one the pass accepts.
improve(d, network) ==
  {network}
  \cup {[network EXCEPT !.nodes = to] :
          to \in {to \in Placements(d, network.nodes, {"R0", "MX"}) :
                    /\ Legal(d, to)
                    /\ Accepts(NetworkHpwl(network),
                               NetworkHpwl([network EXCEPT !.nodes = to]))}}

\* A command of the script: its name and its parameters
Command(name, params) == [name |-> name, params |-> params]

\* dtParams.script_ as improvePlacement puts it together
Script_gs_first(disallow) ==
  << Command("gs", "-p 10 -t 0.005"), Command("mis", "-p 10 -t 0.005"),
     Command("vs", "-p 10 -t 0.005"), Command("ro", "-p 10 -t 0.005"),
     Command("default", "-p 5 -f 20 -gen rng -obj hpwl -cost (hpwl)") >>
  \o (IF disallow THEN <<Command("disallow_one_site_gaps", "")>> ELSE <<>>)
Script(disallow) ==
  << Command("mis", "-p 10 -t 0.005"), Command("gs", "-p 10 -t 0.005"),
     Command("vs", "-p 10 -t 0.005"), Command("ro", "-p 10 -t 0.005"),
     Command("default", "-p 5 -f 20 -gen rng -obj hpwl -cost (hpwl)") >>
  \o (IF disallow THEN <<Command("disallow_one_site_gaps", "")>> ELSE <<>>)

\* The instances updateDbInstLocations passes over
SkipsWriteBack(d, inst) ==
  (~ isCoreAutoPlaceable(d, inst)) \/ isFixed(d, inst)

\* updateDbInstLocations: st is [d, writes].
RECURSIVE WriteBack(_, _, _, _, _)
WriteBack(insts, core, instMap, nodes, st) ==
  IF insts = <<>> THEN st
  ELSE LET inst == Head(insts) IN
       IF SkipsWriteBack(st.d, inst) \/ inst \notin DOMAIN instMap
       THEN WriteBack(Tail(insts), core, instMap, nodes, st)
       ELSE LET nd == nodes[instMap[inst] + 1]
                y == nd.bottom + core.yMin
                x == nd.left + core.xMin
                turn == st.d.orient[inst] # nd.orient
                move == x # st.d.loc[inst].x \/ y # st.d.loc[inst].y
            IN  WriteBack(
                  Tail(insts), core, instMap, nodes,
                  [d |-> [st.d EXCEPT
                            !.orient[inst] = IF turn THEN nd.orient ELSE @,
                            !.loc[inst] = IF move THEN [x |-> x, y |-> y]
                                          ELSE @],
                   writes |->
                     st.writes
                     \o (IF turn THEN <<[inst |-> inst, call |-> "setOrient"]>>
                         ELSE <<>>)
                     \o (IF move
                         THEN <<[inst |-> inst, call |-> "setLocation"]>>
                         ELSE <<>>)])

---------------------------------------------------------------------------
(***************************************************************************)
(* The streams a call is tried on: a slot is <<op-byte, operand>>.  A      *)
(* junction operand is -1 or index 1, which is an earlier slot, the slot    *)
(* itself or a later slot depending on where the junction stands.          *)
Lengths == 1 .. MaxLen
StreamIdx == 0 .. (MaxLen - 1)

JunctionTargets == {-1, 1}

Slots ==
  {<<WOP_PATH + WOP_ROUTED, 1>>}
  \cup {<<WOP_JUNCTION, t>> : t \in JunctionTargets}
  \cup {<<WOP_X, 1>>, <<WOP_X + WOP_EXTENSION, 2>>}
  \cup {<<WOP_Y, 1>>, <<WOP_Y + WOP_DEFAULT_WIDTH, 2>>}
  \cup {<<WOP_VIA + WOP_VIA_EXIT_TOP, 1>>, <<WOP_TECH_VIA, 1>>}
  \cup {<<WOP_COLINEAR + WOP_EXTENSION, 1>>}

Locals ==
  [idx |-> idx, get_layer |-> get_layer, look_for_x |-> look_for_x,
   look_for_y |-> look_for_y, pnt |-> pnt, pc |-> pc]

WireIdle ==
  /\ opcodes = <<>> /\ data = <<>> /\ idx = 0 /\ get_layer = FALSE
  /\ look_for_x = FALSE /\ look_for_y = FALSE /\ pnt = NullPoint
  /\ pc = "idle" /\ idx0 = 0 /\ get_layer0 = FALSE /\ visited = <<>>

DiffIdle ==
  /\ parent_segment = <<>> /\ segs = <<>> /\ result = <<>> /\ dpc = "idle"

NetIdle ==
  /\ db = <<>> /\ dbOrder = <<>> /\ network_ = <<>> /\ instMap_ = <<>>
  /\ termMap_ = <<>> /\ netMap_ = <<>> /\ masterMap_ = <<>>
  /\ counts = <<>> /\ filled = <<>>
  /\ err = 0 /\ runs = 0

ImportIdle ==
  /\ block = <<>> /\ pwrLayers_ = {} /\ gndLayers_ = {}
  /\ masterPwrs_ = <<>> /\ arch_ = <<>> /\ warn = <<>> /\ ipc = "idle"

RunIdle ==
  /\ rpc = "idle" /\ script_ = <<>> /\ steps = <<>> /\ writes = <<>>
  /\ hpwlBefore = 0 /\ hpwlAfter = 0 /\ disallow_one_site_gaps = FALSE
  /\ hpwlLegal = 0 /\ db0 = <<>>

\* A call of getPrevPoint on some stream, at some index.
Init ==
  /\ \E n \in Lengths : \E stream \in [0 .. (n - 1) -> Slots] :
       /\ \A i \in 0 .. (n - 1) :
            OpField(stream[i][1]) = WOP_JUNCTION => stream[i][2] < n
       /\ opcodes = [i \in 0 .. (n - 1) |-> stream[i][1]]
       /\ data = [i \in 0 .. (n - 1) |-> stream[i][2]]
       /\ idx = n - 1
  /\ get_layer \in BOOLEAN
  /\ look_for_x = TRUE
  /\ look_for_y = TRUE
  /\ pnt = NullPoint
  /\ pc = "walk"
  /\ idx0 = idx
  /\ get_layer0 = get_layer
  /\ visited = <<>>
  /\ DiffIdle
  /\ NetIdle
  /\ ImportIdle
  /\ RunIdle

\* label prevOpCode: one pass of the walk
prevOpCode ==
  /\ pc = "walk"
  /\ LET w == Step(opcodes, data, Locals) IN
       /\ idx' = w.idx
       /\ get_layer' = w.get_layer
       /\ look_for_x' = w.look_for_x
       /\ look_for_y' = w.look_for_y
       /\ pnt' = w.pnt
       /\ pc' = w.pc
  /\ visited' = IF idx >= 0 /\ (\A j \in 1 .. Len(visited) : visited[j] # idx)
                THEN Append(visited, idx) ELSE visited
  /\ UNCHANGED <<opcodes, data, idx0, get_layer0, notWire>>

Next == prevOpCode

Spec == Init /\ [][Next]_vars

---------------------------------------------------------------------------
(***************************************************************************)
(* A call of edge_calc::difference on a 1-D parent segment and children    *)
(* that are co-linear with it and contained in it.                         *)
(***************************************************************************)
Pos == 0 .. MaxPos

\* The segment from a to b along the x axis (horizontal) or the y axis.
Segment(a, b, horizontal) ==
  IF horizontal THEN Rect(a, 1, b, 1) ELSE Rect(1, a, 1, b)

InitDifference ==
  /\ \E a, b \in Pos : \E horizontal \in BOOLEAN :
       /\ a <= b
       /\ horizontal \/ a < b
       /\ parent_segment = Segment(a, b, horizontal)
       /\ \E n \in 0 .. MaxSegs :
            segs \in [1 .. n ->
                        {Segment(c, d, horizontal) :
                           c \in a .. b, d \in a .. b} ]
  /\ result = <<>>
  /\ dpc = "call"
  /\ WireIdle
  /\ NetIdle
  /\ ImportIdle
  /\ RunIdle

callDifference ==
  /\ dpc = "call"
  /\ result' \in difference(parent_segment, segs)
  /\ dpc' = "done"
  /\ UNCHANGED <<parent_segment, segs, notDiff>>

NextDifference == callDifference

SpecDifference == InitDifference /\ [][NextDifference]_vars

---------------------------------------------------------------------------
(***************************************************************************)
(* Runs of createNetwork on one database.  The snapshot is not modified    *)
(* between the runs; the order the database hands out its instances in is  *)
(* free at every run, and the order of its nets, terminals and iterms is   *)
(* free at the first run and afterwards stays or has the first two         *)
(* exchanged in one of the three.  The last instance is fixed, unless it   *)
(* is one of the non-placeable ones.                                       *)
(***************************************************************************)
\* The subsets of S with no, one or all elements.
Few(S) == {{}} \cup {{x} : x \in S} \cup {S}

\* The sites of the library: two single-height core sites, one of them
\* wider than the row step, two double-height core sites and a pad site.
Site(name, class, height, width) ==
  [name |-> name, class |-> class, height |-> height, width |-> width,
   symmetry |-> {"X", "Y"}]
CoreSite == Site("core", "CORE", 1, 1)
WideSite == Site("wide", "CORE", 1, 3)
TallSite == Site("tall", "CORE", 2, 1)
Tall2Site == Site("tall2", "CORE", 2, 1)
PadSite == Site("pad", "PAD", 2, 1)

\* The library of a block without cell-edge spacing rules: two CORE
\* masters without edge types, and a DRC engine without a spacing table.
PlainMaster ==
  [type |-> "CORE", bbox |-> Rect(0, 0, CellWidth, 1), height |-> 1,
   width |-> CellWidth, edges |-> <<>>]
PlainLib == <<PlainMaster, PlainMaster>>
NoTable == [has |-> FALSE, idx |-> <<>>]

\* The bounding box of a terminal is 1 wide and 2 high.
PlainSize == [w |-> 1, h |-> 2]

\* The orders the database may hand its nets, terminals and iterms out in.
AllOrders ==
  [nets : Orders(Nets), bterms : Orders(BTerms), iterms : Orders(Insts)]

\* v with its first two entries exchanged
Exchange(v) ==
  IF Len(v) < 2 THEN v
  ELSE [j \in DOMAIN v |-> IF j = 1 THEN v[2] ELSE IF j = 2 THEN v[1] ELSE v[j]]

\* The orders the next run may meet: the same, or one set handed out with
\* its first two entries exchanged.
NextOrders(o) ==
  {o, [o EXCEPT !.nets = Exchange(@)], [o EXCEPT !.bterms = Exchange(@)],
   [o EXCEPT !.iterms = Exchange(@)]}

InitNetwork ==
  /\ \E pads \in Few(Insts) :
     \E supply \in Few(Nets) :
     \E btermNet \in [BTerms -> {nullptr} \cup Nets] :
       db = [kind |-> [inst \in Insts |->
                         IF inst \in pads THEN "pad"
                         ELSE IF inst = MaxInsts THEN "fixed" ELSE "cell"],
             orient |-> [inst \in Insts |-> "MX"],
             loc |-> [inst \in Insts |-> [x |-> inst, y |-> 0]],
             btermLoc |-> [bterm \in BTerms |-> [x |-> 0, y |-> 0]],
             btermSize |-> [bterm \in BTerms |-> PlainSize],
             master |-> [inst \in Insts |-> 1],
             lib |-> PlainLib, table |-> NoTable,
             supply |-> supply, btermNet |-> btermNet]
  /\ dbOrder = <<>>
  /\ network_ = NewNetwork
  /\ instMap_ = <<>> /\ termMap_ = <<>> /\ netMap_ = <<>>
  /\ masterMap_ = <<>>
  /\ counts = <<>> /\ filled = <<>>
  /\ err = 0 /\ runs = 0
  /\ block = [core |-> [xMin |-> 0, yMin |-> 0],
              rows |-> <<[site |-> CoreSite]>>]
  /\ pwrLayers_ = {} /\ gndLayers_ = {} /\ masterPwrs_ = <<>>
  /\ arch_ = <<>> /\ warn = <<>> /\ ipc = "idle"
  /\ WireIdle
  /\ DiffIdle
  /\ RunIdle

\* The vector insts after the sort, for every order block->getInsts() may
\* hand the instances out in.
SortedBlockInsts == {SortedInsts(block_insts) : block_insts \in Orders(Insts)}

\* createNetwork(), on a database that hands its nets, terminals and
\* iterms out in one of the given orders.
createNetworkOn(orders) ==
  /\ pwrLayers_' = {}
  /\ gndLayers_' = {}
  /\ \E o \in orders :
     \E insts \in SortedBlockInsts :
     \E c \in {CountPass(db, o, insts)} :
     \E d \in {ResetOrient(db, insts)} :
     \E built \in Builds(db, block.rows) :
     \E nd \in {PopulateAllNodes(d, block.core, o, insts, Allocate(c).nodes,
                                 instMap_, termMap_, masterPwrs_, runs + 1,
                                 built, masterMap_)} :
     \E st \in {LET st0 == [edges |-> Allocate(c).edges,
                            pins |-> Allocate(c).pins, netMap |-> netMap_,
                            e |-> 0, p |-> 0, err |-> 0]
                IN  IF nd.n # c.nNodes + c.nTerminals THEN st0
                    ELSE PopulateEdges(d, o, o.nets, nd.nodes, nd.instMap,
                                       nd.termMap, st0)} :
       /\ db' = d
       /\ dbOrder' = o
       /\ network_' = [nodes |-> nd.nodes, edges |-> st.edges,
                       pins |-> st.pins, masters |-> nd.masters]
       /\ masterMap_' = nd.masterMap
       /\ instMap_' = nd.instMap
       /\ termMap_' = nd.termMap
       /\ netMap_' = st.netMap
       /\ counts' = c
       /\ filled' = [n |-> nd.n, e |-> st.e, p |-> st.p]
       /\ err' = ErrorCode(c, nd.n, st)
       /\ writes' = writes \o ResetCalls(db, insts)
  /\ runs' = runs + 1

\* import(): network_ = new Network; createNetwork()
createNetwork ==
  /\ runs < MaxRuns
  /\ createNetworkOn(IF runs = 0 THEN AllOrders ELSE NextOrders(dbOrder))
  /\ UNCHANGED <<wireVars, diffVars, block, masterPwrs_, arch_, warn, ipc,
                 runVars>>

NextNetwork == createNetwork

SpecNetwork == InitNetwork /\ [][NextNetwork]_vars

---------------------------------------------------------------------------
(***************************************************************************)
(* import(), from setupMasterPowers to createArchitecture, on a block with *)
(* up to MaxRows rows, one master and at most one special-wire box.        *)
(***************************************************************************)
\* A row of the block: dx and dy are the offsets of its origin from the
\* lower-left corner of the core.
DbRow(site, dir, spacing, count, dx, dy) ==
  [site |-> site, dir |-> dir, spacing |-> spacing, count |-> count,
   dx |-> dx, dy |-> dy, orient |-> "R0"]

\* The rows a block is put together from.
RowMenu ==
  << DbRow(CoreSite, "HORIZONTAL", 1, 2, 0, 0),
     DbRow(CoreSite, "HORIZONTAL", 1, 1, 1, 1),
     DbRow(CoreSite, "HORIZONTAL", 2, 1, 0, 1),
     DbRow(CoreSite, "HORIZONTAL", 1, 3, 0, 2),
     DbRow(WideSite, "HORIZONTAL", 1, 1, 0, 0),
     DbRow(WideSite, "HORIZONTAL", 1, 2, 0, 1),
     DbRow(WideSite, "HORIZONTAL", 2, 2, 1, 0),
     DbRow(TallSite, "HORIZONTAL", 1, 2, 0, 0),
     DbRow(Tall2Site, "HORIZONTAL", 1, 1, 0, 2),
     DbRow(TallSite, "VERTICAL", 1, 1, 0, 0),
     DbRow(CoreSite, "VERTICAL", 1, 1, 0, 1),
     DbRow(PadSite, "HORIZONTAL", 1, 1, 0, 0) >>

\* The row lists of a block: 1 to MaxRows rows of the menu, in the order
\* of the menu.
RowLists ==
  UNION {{picks \in [1 .. n -> DOMAIN RowMenu] :
            \A k \in 1 .. (n - 1) : picks[k] <= picks[k + 1]} :
           n \in 1 .. MaxRows}

\* The masters of a block: an mterm is its signal type and its mpins.
MTerm(sig, y, layer) == [sig |-> sig, mpins |-> <<[y |-> y, layers |-> {layer}]>>]
MasterMenu ==
  { << <<MTerm("SIGNAL", 0, 1)>> >>,
    << <<MTerm("POWER", 1, 1), MTerm("GROUND", 0, 1)>> >>,
    << <<MTerm("POWER", 0, 2), MTerm("GROUND", 1, 1), MTerm("SIGNAL", 0, 1)>> >>,
    << <<MTerm("GROUND", 0, 2)>>,
       <<MTerm("POWER", 1, 1), MTerm("GROUND", 0, 1)>> >>,
    << <<MTerm("POWER", 1, 1), MTerm("GROUND", 1, 1)>> >>,
    << <<[sig |-> "POWER",
          mpins |-> <<[y |-> 0, layers |-> {1}], [y |-> 2, layers |-> {1}]>>],
         MTerm("GROUND", 1, 1)>> >> }

\* The boxes of the special wires of a block: y1 and y2 are the lower and
\* the upper edge of the box in the coordinates of the database.
Rail(sig, layer, y1, y2) ==
  [special |-> TRUE, sig |-> sig, wire |-> "ROUTED", dir |-> "HORIZONTAL",
   via |-> FALSE, layer |-> layer, box |-> Rect(0, y1, MaxRailX, y2)]
RailMenu ==
  {Rail(sig, 1, y, y) : sig \in {"POWER", "GROUND"}, y \in 1 .. 3}
  \cup {Rail("POWER", 2, 2, 2), Rail("POWER", 1, 0, 4),
        Rail("SIGNAL", 1, 1, 1),
        [Rail("POWER", 1, 1, 1) EXCEPT !.special = FALSE],
        [Rail("POWER", 1, 1, 1) EXCEPT !.wire = "SHIELD"],
        [Rail("POWER", 1, 1, 1) EXCEPT !.dir = "VERTICAL"],
        [Rail("POWER", 1, 1, 1) EXCEPT !.via = TRUE]}
RailLists == {<<>>} \cup {<<rail>> : rail \in RailMenu}

\* The lower-left corners of the core area
Cores == {[xMin |-> c, yMin |-> c] : c \in 0 .. MaxCore}

\* The instances, nets and terminals of the block: every instance is
\* placeable, the last one fixed, no net is a supply and every terminal is
\* on net 1.
PlainDb ==
  [kind |-> [inst \in Insts |-> IF inst = MaxInsts THEN "fixed" ELSE "cell"],
   orient |-> [inst \in Insts |-> "MX"],
   loc |-> [inst \in Insts |-> [x |-> inst, y |-> 0]],
   btermLoc |-> [bterm \in BTerms |-> [x |-> 0, y |-> 0]],
   btermSize |-> [bterm \in BTerms |-> PlainSize],
   master |-> [inst \in Insts |-> 1],
   lib |-> PlainLib, table |-> NoTable,
   supply |-> {}, btermNet |-> [bterm \in BTerms |-> 1]]

\* The order the database hands out its nets, terminals and iterms in.
PlainOrder ==
  [nets |-> [k \in Nets |-> k], bterms |-> [k \in BTerms |-> k],
   iterms |-> [k \in Insts |-> k]]

\* import() has made the new Network and the new Architecture.
InitImport ==
  /\ \E core \in Cores : \E picks \in RowLists :
     \E masters \in MasterMenu : \E rails \in RailLists :
       block = [core |-> core,
                rows |-> [k \in DOMAIN picks |->
                            [site |-> RowMenu[picks[k]].site,
                             dir |-> RowMenu[picks[k]].dir,
                             spacing |-> RowMenu[picks[k]].spacing,
                             count |-> RowMenu[picks[k]].count,
                             orient |-> RowMenu[picks[k]].orient,
                             origin |-> [x |-> core.xMin + RowMenu[picks[k]].dx,
                                         y |-> core.yMin + RowMenu[picks[k]].dy]]],
                masters |-> masters, rails |-> rails, groups |-> <<>>]
  /\ pwrLayers_ = {} /\ gndLayers_ = {} /\ masterPwrs_ = <<>>
  /\ arch_ = NewArchitecture /\ warn = <<>>
  /\ ipc = "setupMasterPowers"
  /\ db = [PlainDb EXCEPT
             !.master = [inst \in Insts |->
                           IF inst <= Len(block.masters) THEN inst ELSE 1]]
  /\ dbOrder = <<>> /\ network_ = NewNetwork
  /\ instMap_ = <<>> /\ termMap_ = <<>> /\ netMap_ = <<>>
  /\ masterMap_ = <<>>
  /\ counts = <<>> /\ filled = <<>> /\ err = 0 /\ runs = 0
  /\ WireIdle /\ DiffIdle /\ RunIdle

\* setupMasterPowers()
setupMasterPowers ==
  /\ ipc = "setupMasterPowers"
  /\ pwrLayers_' = pwrLayers_ \cup MasterLayers(block.masters, "POWER")
  /\ gndLayers_' = gndLayers_ \cup MasterLayers(block.masters, "GROUND")
  /\ masterPwrs_' = [m \in DOMAIN block.masters |->
                       MasterPowers(block.masters[m])]
  /\ ipc' = "createNetwork"
  /\ UNCHANGED <<wireVars, diffVars, netVars, block, arch_, warn, runVars,
                 writes>>

\* createNetwork(), called by import()
importNetwork ==
  /\ ipc = "createNetwork"
  /\ createNetworkOn({PlainOrder})
  /\ ipc' = IF err' = 0 THEN "createArchitecture" ELSE "aborted"
  /\ UNCHANGED <<wireVars, diffVars, block, masterPwrs_, arch_, warn,
                 runVars>>

\* createArchitecture()
createArchitecture ==
  /\ ipc = "createArchitecture"
  /\ \E min \in {min_row_height(block.rows)} :
     \E rows \in {ArchRows(block.rows, block.core, min)} :
     \E box \in {SurroundingBox(rows)} :
       /\ arch_' = [rows |-> ScanRails(block.rails, block.core, pwrLayers_,
                                       gndLayers_,
                                       [r \in DOMAIN rows |->
                                          ClipRow(rows[r], box.minX, box.maxX)]),
                    regions |-> arch_.regions,
                    minX |-> box.minX, maxX |-> box.maxX,
                    minY |-> box.minY, maxY |-> box.maxY]
       /\ warn' = warn \o SkipWarnings(skip_list(block.rows, min), min)
  /\ ipc' = "setUpPlacementGroups"
  /\ UNCHANGED <<wireVars, diffVars, netVars, block, pwrLayers_, gndLayers_,
                 masterPwrs_, runVars, writes>>

\* setUpPlacementGroups()
setUpPlacementGroups ==
  /\ ipc = "setUpPlacementGroups"
  /\ \E st \in {GroupLoop(block.groups, block.core, arch_, instMap_,
                           [regions |-> Append(arch_.regions,
                                               DefaultRegion(arch_)),
                            nodes |-> network_.nodes, count |-> 1])} :
       /\ arch_' = [arch_ EXCEPT !.regions = st.regions]
       /\ network_' = [network_ EXCEPT !.nodes = st.nodes]
  /\ ipc' = "done"
  /\ UNCHANGED <<wireVars, diffVars, db, dbOrder, instMap_, termMap_,
                 netMap_, masterMap_, counts, filled, err, runs, block, pwrLayers_,
                 gndLayers_, masterPwrs_, warn, runVars, writes>>

NextImport ==
  \/ setupMasterPowers
  \/ importNetwork
  \/ createArchitecture
  \/ setUpPlacementGroups

SpecImport == InitImport /\ [][NextImport]_vars

---------------------------------------------------------------------------
(***************************************************************************)
(* import() on a block whose DRC engine may have a cell-edge spacing       *)
(* table: master 1 is a CORE master 3 wide and 4 high (two rows of the     *)
(* site) with up to two edge types, master 2 a CORE_SPACER master.         *)
(***************************************************************************)
\* An edge type of a master: rangeBegin and rangeEnd are offsets from the
\* left end of the side, cellRow and halfRow count from 1, -1 is "none".
EdgeType(dir, type, rangeBegin, rangeEnd, cellRow, halfRow) ==
  [dir |-> dir, type |-> type, rangeBegin |-> rangeBegin,
   rangeEnd |-> rangeEnd, cellRow |-> cellRow, halfRow |-> halfRow]

\* The edge types master 1 is given: whole sides, ranges of the bottom
\* side, cell rows and half rows of the left and the right side.
EdgeMenu ==
  {EdgeType("TOP", "A", -1, -1, -1, -1),
   EdgeType("BOTTOM", "A", 0, 1, -1, -1),
   EdgeType("BOTTOM", "A", 1, 2, -1, -1),
   EdgeType("BOTTOM", "B", 1, 3, -1, -1),
   EdgeType("LEFT", "A", -1, -1, -1, -1),
   EdgeType("LEFT", "B", -1, -1, 1, -1),
   EdgeType("RIGHT", "A", -1, -1, 2, -1),
   EdgeType("RIGHT", "B", -1, -1, -1, 3),
   EdgeType("LEFT", "A", -1, -1, -1, 1)}
EdgeLists == UNION {[1 .. n -> EdgeMenu] : n \in 0 .. 2}

\* The spacing tables of the DRC engine: none, one that defines every edge
\* type, one without edge type B and one without DEFAULT.
TableMenu ==
  {NoTable,
   [has |-> TRUE, idx |-> [name \in {"DEFAULT", "A", "B"} |->
                             CASE name = "DEFAULT" -> 0 [] name = "A" -> 1
                               [] name = "B" -> 2]],
   [has |-> TRUE, idx |-> [name \in {"DEFAULT", "A"} |->
                             IF name = "DEFAULT" THEN 0 ELSE 1]],
   [has |-> TRUE, idx |-> [name \in {"A", "B"} |->
                             IF name = "A" THEN 0 ELSE 1]]}

EdgeMaster(edges) ==
  [type |-> "CORE", bbox |-> Rect(1, 1, 4, 5), height |-> 4, width |-> 3,
   edges |-> edges]
SpacerMaster ==
  [type |-> "CORE_SPACER", bbox |-> Rect(0, 0, 1, 4), height |-> 4,
   width |-> 1, edges |-> <<>>]

\* import() has made the new Network and the new Architecture.
InitMaster ==
  /\ \E table \in TableMenu : \E edges \in EdgeLists :
     \E master \in [Insts -> {1, 2}] :
       db = [PlainDb EXCEPT !.master = master, !.table = table,
                            !.lib = <<EdgeMaster(edges), SpacerMaster>>]
  /\ block = [core |-> [xMin |-> 0, yMin |-> 0],
              rows |-> <<[site |-> TallSite, dir |-> "HORIZONTAL",
                          spacing |-> 1, count |-> 3, orient |-> "R0",
                          origin |-> [x |-> 0, y |-> 0]]>>,
              masters |-> << <<MTerm("POWER", 1, 1)>>,
                             <<MTerm("POWER", 1, 1)>> >>,
              rails |-> <<>>, groups |-> <<>>]
  /\ pwrLayers_ = {} /\ gndLayers_ = {} /\ masterPwrs_ = <<>>
  /\ arch_ = NewArchitecture /\ warn = <<>>
  /\ ipc = "setupMasterPowers"
  /\ dbOrder = <<>> /\ network_ = NewNetwork
  /\ instMap_ = <<>> /\ termMap_ = <<>> /\ netMap_ = <<>>
  /\ masterMap_ = <<>>
  /\ counts = <<>> /\ filled = <<>> /\ err = 0 /\ runs = 0
  /\ WireIdle /\ DiffIdle /\ RunIdle

SpecMaster == InitMaster /\ [][NextImport]_vars

---------------------------------------------------------------------------
(***************************************************************************)
(* import() on a block with up to MaxGroups groups over its instances,     *)
(* some of which are not placeable.                                        *)
(***************************************************************************)
\* The instances of a group, in the order the group hands them out
RECURSIVE InOrder(_)
InOrder(S) ==
  IF S = {} THEN <<>>
  ELSE LET m == CHOOSE x \in S : \A y \in S : x <= y
       IN  <<m>> \o InOrder(S \ {m})

\* The groups a block is put together from: with or without a region, the
\* region with two boundaries.
Boundaries == {<<Rect(1, 1, 3, 2), Rect(2, 1, 5, 3)>>}
GroupMenu ==
  {[hasRegion |-> FALSE, boundaries |-> <<>>, insts |-> InOrder(S)] :
     S \in SUBSET Insts}
  \cup {[hasRegion |-> TRUE, boundaries |-> bs, insts |-> InOrder(S)] :
          bs \in Boundaries, S \in SUBSET Insts}
GroupLists == UNION {[1 .. n -> GroupMenu] : n \in 0 .. MaxGroups}

InitGroups ==
  /\ \E pads \in Few(Insts) : \E groups \in GroupLists :
       /\ db = [PlainDb EXCEPT
                  !.kind = [inst \in Insts |->
                              IF inst \in pads THEN "pad" ELSE @[inst]]]
       /\ block = [core |-> [xMin |-> MaxCore, yMin |-> MaxCore],
                   rows |-> <<[site |-> CoreSite, dir |-> "HORIZONTAL",
                               spacing |-> 1, count |-> 3, orient |-> "R0",
                               origin |-> [x |-> MaxCore, y |-> MaxCore]]>>,
                   masters |-> << <<MTerm("POWER", 1, 1)>> >>,
                   rails |-> <<>>, groups |-> groups]
  /\ pwrLayers_ = {} /\ gndLayers_ = {} /\ masterPwrs_ = <<>>
  /\ arch_ = NewArchitecture /\ warn = <<>>
  /\ ipc = "setupMasterPowers"
  /\ dbOrder = <<>> /\ network_ = NewNetwork
  /\ instMap_ = <<>> /\ termMap_ = <<>> /\ netMap_ = <<>>
  /\ masterMap_ = <<>>
  /\ counts = <<>> /\ filled = <<>> /\ err = 0 /\ runs = 0
  /\ WireIdle /\ DiffIdle /\ RunIdle

SpecGroups == InitGroups /\ [][NextImport]_vars

---------------------------------------------------------------------------
(***************************************************************************)
(* improvePlacement on a block with one row, whose instances lie on sites  *)
(* 0 .. MaxX of it.                                                        *)
(***************************************************************************)
InitImprove ==
  /\ \E pads \in Few(Insts) : \E orient \in {"R0", "MX"} :
     \E at \in [Insts -> 0 .. MaxX] : \E oneSite \in BOOLEAN :
       /\ db = [kind |-> [inst \in Insts |->
                            IF inst \in pads THEN "pad"
                            ELSE IF inst = MaxInsts THEN "fixed" ELSE "cell"],
                orient |-> [inst \in Insts |-> orient],
                loc |-> [inst \in Insts |->
                           [x |-> MaxCore + at[inst], y |-> MaxCore]],
                btermLoc |-> [bterm \in BTerms |-> [x |-> 0, y |-> 0]],
                btermSize |-> [bterm \in BTerms |-> PlainSize],
                master |-> [inst \in Insts |-> 1],
                lib |-> PlainLib, table |-> NoTable,
                supply |-> {},
                btermNet |-> [bterm \in BTerms |-> nullptr]]
       /\ block = [core |-> [xMin |-> MaxCore, yMin |-> MaxCore],
                   rows |-> <<[site |-> CoreSite, dir |-> "HORIZONTAL",
                               spacing |-> 1, count |-> MaxX + CellWidth,
                               orient |-> "R0",
                               origin |-> [x |-> MaxCore, y |-> MaxCore]]>>,
                   masters |-> << <<MTerm("POWER", 1, 1)>> >>,
                   rails |-> <<>>, groups |-> <<>>,
                   hasOneSiteMaster |-> oneSite]
  /\ db0 = db
  /\ rpc = "improvePlacement" /\ script_ = <<>> /\ steps = <<>>
  /\ writes = <<>> /\ hpwlBefore = 0 /\ hpwlAfter = 0 /\ hpwlLegal = 0
  /\ disallow_one_site_gaps = FALSE
  /\ pwrLayers_ = {} /\ gndLayers_ = {} /\ masterPwrs_ = <<>>
  /\ arch_ = <<>> /\ warn = <<>> /\ ipc = "idle"
  /\ dbOrder = <<>> /\ network_ = <<>>
  /\ instMap_ = <<>> /\ termMap_ = <<>> /\ netMap_ = <<>>
  /\ masterMap_ = <<>>
  /\ counts = <<>> /\ filled = <<>> /\ err = 0 /\ runs = 0
  /\ WireIdle /\ DiffIdle

\* improvePlacement, up to the call of setupMasterPowers in import()
improvePlacement ==
  /\ rpc = "improvePlacement"
  /\ hpwlBefore' = hpwl(db)
  /\ IF SkipsRun(hpwl(db))
     THEN /\ rpc' = "returned"
          /\ steps' = Append(steps, "skip")
          /\ UNCHANGED <<network_, arch_, ipc>>
     ELSE /\ rpc' = "import"
          /\ steps' = Append(steps, "import")
          /\ network_' = NewNetwork
          /\ arch_' = NewArchitecture
          /\ ipc' = "setupMasterPowers"
  /\ UNCHANGED <<wireVars, diffVars, db, dbOrder, instMap_, termMap_,
                 netMap_, masterMap_, counts, filled, err, runs, block, pwrLayers_,
                 gndLayers_, masterPwrs_, warn, script_, hpwlAfter,
                 disallow_one_site_gaps, hpwlLegal, db0, writes>>

\* improvePlacement, from the return of import() to the script
legalizeStep ==
  /\ rpc = "import" /\ ipc = "done"
  /\ disallow_one_site_gaps' = ~ block.hasOneSiteMaster
  /\ \E nodes \in legalize(db, network_.nodes) :
       network_' = [network_ EXCEPT !.nodes = nodes]
  /\ hpwlLegal' = NetworkHpwl(network_')
  /\ script_' = Script(disallow_one_site_gaps')
  /\ steps' = Append(steps, "legalize")
  /\ rpc' = "improve"
  /\ UNCHANGED <<wireVars, diffVars, db, dbOrder, instMap_, termMap_,
                 netMap_, masterMap_, counts, filled, err, runs, impVars,
                 hpwlBefore, hpwlAfter, db0, writes>>

\* Detailed::improve: the next command of the script
improveStep ==
  /\ rpc = "improve" /\ script_ # <<>>
  /\ IF Head(script_).name = "disallow_one_site_gaps"
     THEN UNCHANGED network_
     ELSE network_' \in improve(db, network_)
  /\ steps' = Append(steps, Head(script_).name)
  /\ script_' = Tail(script_)
  /\ UNCHANGED <<wireVars, diffVars, db, dbOrder, instMap_, termMap_,
                 netMap_, masterMap_, counts, filled, err, runs, impVars, rpc,
                 hpwlBefore, hpwlAfter, disallow_one_site_gaps, hpwlLegal,
                 db0, writes>>

\* updateDbInstLocations()
updateDbInstLocations ==
  /\ rpc = "improve" /\ script_ = <<>>
  /\ \E st \in {WriteBack(InOrder(Insts), block.core, instMap_,
                           network_.nodes, [d |-> db, writes |-> writes])} :
       /\ db' = st.d
       /\ writes' = st.writes
  /\ steps' = Append(steps, "write-back")
  /\ rpc' = "cleanup"
  /\ UNCHANGED <<wireVars, diffVars, dbOrder, network_, instMap_, termMap_,
                 netMap_, masterMap_, counts, filled, err, runs, impVars, script_,
                 hpwlBefore, hpwlAfter, disallow_one_site_gaps, hpwlLegal,
                 db0>>

\* improvePlacement, from the final hpwl on
improvePlacementEnd ==
  /\ rpc = "cleanup"
  /\ hpwlAfter' = hpwl(db)
  /\ network_' = <<>>
  /\ arch_' = <<>>
  /\ rpc' = "returned"
  /\ UNCHANGED <<wireVars, diffVars, db, dbOrder, instMap_, termMap_,
                 netMap_, masterMap_, counts, filled, err, runs, block, pwrLayers_,
                 gndLayers_, masterPwrs_, warn, ipc, script_, steps,
                 hpwlBefore, disallow_one_site_gaps, hpwlLegal, db0, writes>>

NextImprove ==
  \/ improvePlacement
  \/ setupMasterPowers
  \/ importNetwork
  \/ createArchitecture
  \/ setUpPlacementGroups
  \/ legalizeStep
  \/ improveStep
  \/ updateDbInstLocations
  \/ improvePlacementEnd

SpecImprove == InitImprove /\ [][NextImprove]_vars

---------------------------------------------------------------------------
(***************************************************************************)
(* Calls of improvePlacement on one Optdp object, one after the other, on  *)
(* a block without pads.                                                   *)
(***************************************************************************)
InitRuns ==
  /\ InitImprove
  /\ \A inst \in Insts : db.kind[inst] # "pad"

\* The caller calls improvePlacement again, after a call that built a
\* Network has returned.
improvePlacementAgain ==
  /\ rpc = "returned" /\ runs < MaxRuns
  /\ steps[Len(steps)] # "skip"
  /\ rpc' = "improvePlacement"
  /\ db0' = db
  /\ UNCHANGED <<wireVars, diffVars, netVars, impVars, script_, steps,
                 hpwlBefore, hpwlAfter, disallow_one_site_gaps, hpwlLegal,
                 writes>>

NextRuns == NextImprove \/ improvePlacementAgain

SpecRuns == InitRuns /\ [][NextRuns]_vars

---------------------------------------------------------------------------
(***************************************************************************)
(* Properties of getPrevPoint (checked under Spec).                        *)
(***************************************************************************)
Terminal == pc \in {"returned", "aborted"}

\* The opcode a slot's op-byte carries in its low 5 bits.
OpOf(byte) == byte % 32

LayerOps == {WOP_PATH, WOP_SHORT, WOP_VIA, WOP_TECH_VIA}

\* Among the first n positions read, one holds an opcode of the set ops.
Met(n, ops) == \E j \in 1 .. n : OpOf(opcodes[visited[j]]) \in ops

\* The first position read that holds an opcode of the set ops.
FirstMet(ops) ==
  visited[CHOOSE j \in 1 .. Len(visited) :
            /\ OpOf(opcodes[visited[j]]) \in ops
            /\ \A k \in 1 .. (j - 1) : OpOf(opcodes[visited[k]]) \notin ops]

\* After the first n positions read, every requested field has a writer.
ResolvedAfter(n) ==
  /\ Met(n, {WOP_X})
  /\ Met(n, {WOP_Y})
  /\ get_layer0 => Met(n, LayerOps)

\* Every JUNCTION operand is an earlier index.
ValidJunctions ==
  \A k \in DOMAIN opcodes :
    OpOf(opcodes[k]) = WOP_JUNCTION => data[k] \in 0 .. (k - 1)

\* The forward oracle: the running (x, y, layer) after slot k, replaying the
\* stream from slot 0; a junction resumes the state recorded at its target.
\* (has: the fields some slot has written so far)
Unset == [x |-> 0, y |-> 0, layer |-> 0, has |-> {}]

RECURSIVE Replay(_)
Replay(k) ==
  IF k < 0 THEN Unset
  ELSE LET byte == opcodes[k]
           op == byte % 32
           top == byte >= 128
       IN  CASE op = WOP_JUNCTION -> Replay(data[k])
             [] op = WOP_X -> [Replay(k - 1) EXCEPT !.x = data[k], !.has = @ \cup {"x"}]
             [] op = WOP_Y -> [Replay(k - 1) EXCEPT !.y = data[k], !.has = @ \cup {"y"}]
             [] op \in {WOP_PATH, WOP_SHORT} ->
                  [Replay(k - 1) EXCEPT !.layer = data[k],
                                        !.has = @ \cup {"layer"}]
             [] op = WOP_VIA ->
                  [Replay(k - 1) EXCEPT
                     !.layer = IF top THEN data[k] + 1 ELSE data[k],
                     !.has = @ \cup {"layer"}]
             [] op = WOP_TECH_VIA ->
                  [Replay(k - 1) EXCEPT
                     !.layer = IF top THEN data[k] + 3 ELSE data[k] + 2,
                     !.has = @ \cup {"layer"}]
             [] OTHER -> Replay(k - 1)

\* The stream is valid for the call: junctions point backward and the
\* oracle has a value for every requested field at the start index.
ValidCall ==
  /\ ValidJunctions
  /\ {"x", "y"} \subseteq Replay(idx0).has
  /\ get_layer0 => "layer" \in Replay(idx0).has

\* C1: on a valid stream the call never fails, and the point it returns has
\* the x, the y and (when the layer is requested) the layer of the forward
\* oracle at the start index.
C1_AgreesWithForwardOracle ==
  Terminal =>
    LET o == Replay(idx0) IN
    (ValidJunctions /\ {"x", "y"} \subseteq o.has
       /\ (get_layer0 => "layer" \in o.has)) =>
      /\ pc = "returned"
      /\ pnt._x = o.x
      /\ pnt._y = o.y
      /\ get_layer0 => pnt._layer = o.layer

\* C1 witness: a valid call that asked for the layer, went through a
\* junction and a flagged coordinate, and has returned.
C1_Witness ==
  /\ pc = "returned" /\ ValidCall /\ get_layer0
  /\ Met(Len(visited), {WOP_JUNCTION})
  /\ \E j \in 1 .. Len(visited) : opcodes[visited[j]] = WOP_X + WOP_EXTENSION

\* C2: once x (y) is resolved it is the operand of the first X (Y) opcode
\* read on the walk, and stays so; while it is unresolved no X (Y) has been
\* read.
C2_FirstWriterWins ==
  /\ look_for_x = (~ Met(Len(visited), {WOP_X}))
  /\ look_for_y = (~ Met(Len(visited), {WOP_Y}))
  /\ (pc # "idle" /\ ~ look_for_x) => pnt._x = data[FirstMet({WOP_X})]
  /\ (pc # "idle" /\ ~ look_for_y) => pnt._y = data[FirstMet({WOP_Y})]

\* C2 witness: a returned call that read two X opcodes with different
\* operands and two Y opcodes with different operands.
C2_Witness ==
  /\ pc = "returned"
  /\ \E i, j \in 1 .. Len(visited) :
       /\ i < j
       /\ OpOf(opcodes[visited[i]]) = WOP_X
       /\ OpOf(opcodes[visited[j]]) = WOP_X
       /\ data[visited[i]] # data[visited[j]]
       /\ pnt._x = data[visited[i]]

\* C3: the call returns exactly at the first position read at which x, y
\* and the requested layer all have a writer: it has returned iff they all
\* have, it reads nothing after that position, and no shorter prefix of the
\* walk had them all.
C3_StopsWhenResolved ==
  /\ pc = "walk" => ~ ResolvedAfter(Len(visited))
  /\ pc = "returned" =>
       /\ ResolvedAfter(Len(visited))
       /\ \A n \in 0 .. (Len(visited) - 1) : ~ ResolvedAfter(n)
       /\ idx = visited[Len(visited)]
       /\ ~ look_for_x /\ ~ look_for_y
       /\ get_layer0 => pnt._layer # nullptr

\* C3 witness: a call with the layer requested that returned on the third
\* position it read, the layer being the last field resolved.
C3_Witness ==
  /\ pc = "returned" /\ get_layer0 /\ Len(visited) >= 3
  /\ OpOf(opcodes[idx]) \in LayerOps

\* C4: a call entered on a JUNCTION slot with operand t ends exactly as the
\* call entered at t with the same get_layer: same outcome, same point.
C4_JunctionTransparent ==
  (Terminal /\ OpOf(opcodes[idx0]) = WOP_JUNCTION) =>
     LET r == getPrevPoint(opcodes, data, data[idx0], get_layer0) IN
       r.pc = pc /\ r.pnt = pnt

\* C4 witness: a returned call entered on a junction whose target is not
\* the slot just before it.
C4_Witness ==
  /\ pc = "returned" /\ pnt._x # pnt._y
  /\ OpOf(opcodes[idx0]) = WOP_JUNCTION
  /\ data[idx0] # idx0 - 1

\* C5: a walk whose index is below 0 fails on the assertion and has not
\* returned; a call that failed had an unresolved field, and a call that
\* returned has every requested field resolved.
C5_FailsLoudly ==
  /\ idx < 0 => pc \in {"walk", "aborted"}
  /\ (pc = "walk" /\ idx < 0) => Step(opcodes, data, Locals).pc = "aborted"
  /\ pc = "aborted" => (idx < 0 /\ ~ ResolvedAfter(Len(visited)))
  /\ pc = "returned" => (idx >= 0 /\ ResolvedAfter(Len(visited)))

\* C5 witness: a call that resolved x, then ran off the start of the
\* stream and failed.
C5_Witness ==
  /\ pc = "aborted" /\ ~ look_for_x /\ look_for_y
  /\ Len(visited) >= 2

\* The stream with flag bit f of the op-byte of slot k inverted.
Toggle(k, f) ==
  [opcodes EXCEPT ![k] = IF FlagSet(@, f) THEN @ - f ELSE @ + f]

FlagBits == {32, 64, 128}

\* C6: for a call that returns, inverting one of the three flag bits of
\* one slot gives a call that returns the same point, except bit 0x80 of a
\* VIA or TECH_VIA slot, which leaves x and y unchanged and can only
\* exchange that via's top and bottom layer.
C6_DispatchOnOpcodeField ==
  pc = "returned" =>
    \A k \in DOMAIN opcodes : \A f \in FlagBits :
      LET r == getPrevPoint(Toggle(k, f), data, idx0, get_layer0)
          op == OpOf(opcodes[k])
      IN  IF op \in {WOP_VIA, WOP_TECH_VIA} /\ f = WOP_VIA_EXIT_TOP
          THEN /\ r.pc = pc
               /\ r.pnt._x = pnt._x /\ r.pnt._y = pnt._y
               /\ r.pnt._layer # pnt._layer =>
                    {r.pnt._layer, pnt._layer} =
                      IF op = WOP_VIA
                      THEN {ViaBottomLayer(data[k]), ViaTopLayer(data[k])}
                      ELSE {TechViaBottomLayer(data[k]),
                            TechViaTopLayer(data[k])}
          ELSE r.pc = pc /\ r.pnt = pnt

\* C6 witness: a returned call that read flagged PATH, X and Y slots.
C6_Witness ==
  /\ pc = "returned" /\ get_layer0
  /\ \E i, j, k \in 1 .. Len(visited) :
       /\ opcodes[visited[i]] = WOP_X + WOP_EXTENSION
       /\ opcodes[visited[j]] = WOP_Y + WOP_DEFAULT_WIDTH
       /\ opcodes[visited[k]] = WOP_PATH + WOP_ROUTED

\* The layer a layer-bearing slot k names: the operand's layer for PATH and
\* SHORT, the via's top layer when bit 0x80 of the op-byte is set and its
\* bottom layer otherwise for VIA and TECH_VIA.
LayerAt(k) ==
  LET byte == opcodes[k]
      op == OpOf(byte)
      top == (byte \div 128) % 2 = 1
  IN  CASE op \in {WOP_PATH, WOP_SHORT} -> getTechLayer(data[k])
        [] op = WOP_VIA ->
             IF top THEN ViaTopLayer(data[k]) ELSE ViaBottomLayer(data[k])
        [] op = WOP_TECH_VIA ->
             IF top THEN TechViaTopLayer(data[k])
             ELSE TechViaBottomLayer(data[k])

BackwardJunctions ==
  \A k \in DOMAIN opcodes :
    OpOf(opcodes[k]) = WOP_JUNCTION => data[k] < k

\* Two streams with a junction that is not backward: slot 1 a junction to
\* itself, and slot 0 a junction to the later slot 1.
SelfOps == [i \in 0 .. 1 |-> IF i = 1 THEN WOP_JUNCTION ELSE WOP_X]
LaterOps == [i \in 0 .. 1 |-> IF i = 0 THEN WOP_JUNCTION ELSE WOP_COLINEAR]
ToOne == [i \in 0 .. 1 |-> 1]

\* C26: on a stream whose junctions all point backward every pass of the
\* walk either ends the call (return or failed assertion) or moves to a
\* strictly smaller index from an index >= 0, so the call ends within
\* idx0 + 2 passes; a junction to its own index or to a later index brings
\* the walk back to the very state it started from, so it never ends.
C26_BackwardWalkTerminates ==
  [][/\ (BackwardJunctions /\ pc = "walk") =>
          (pc' \in {"returned", "aborted"} \/ (idx >= 0 /\ idx' < idx))
     /\ \A gl \in BOOLEAN :
          /\ Step(SelfOps, ToOne, Entry(1, gl)) = Entry(1, gl)
          /\ Step(LaterOps, ToOne, Step(LaterOps, ToOne, Entry(1, gl)))
               = Entry(1, gl)]_vars

\* C26 witness: a call on a stream with backward junctions only that went
\* through a junction to a slot other than the one before it and ended.
C26_Witness ==
  /\ Terminal /\ BackwardJunctions
  /\ \E j \in 1 .. Len(visited) :
       /\ OpOf(opcodes[visited[j]]) = WOP_JUNCTION
       /\ data[visited[j]] \in 0 .. (visited[j] - 2)


---------------------------------------------------------------------------
(***************************************************************************)
(* Properties of edge_calc::difference (checked under SpecDifference).     *)
(***************************************************************************)
Along == parent_segment.ylo = parent_segment.yhi

\* The ends of a segment along the parent's axis.
Lo(r) == IF Along THEN r.xlo ELSE r.ylo
Hi(r) == IF Along THEN r.xhi ELSE r.yhi

\* The unit stretches [c, c + 1] of the parent, and its points.
Cells == Lo(parent_segment) .. (Hi(parent_segment) - 1)
Points == Lo(parent_segment) .. Hi(parent_segment)

InChild(c) == \E i \in 1 .. Len(segs) : Lo(segs[i]) <= c /\ c + 1 <= Hi(segs[i])

ResultsOver(c) ==
  Cardinality({j \in 1 .. Len(result) :
                 Lo(result[j]) <= c /\ c + 1 <= Hi(result[j])})

RECURSIVE TotalLength(_)
TotalLength(v) ==
  IF v = <<>> THEN 0 ELSE (Hi(Head(v)) - Lo(Head(v))) + TotalLength(Tail(v))

\* C7: the returned segments and the children tile the parent: every unit
\* stretch inside a child is in no returned segment and every other one is
\* in exactly one; every point of the parent is in a child or a returned
\* segment; returned segments lie on the parent, in increasing order; and
\* the returned lengths plus the length the children cover add up to the
\* parent's length.
C7_DifferenceTilesParent ==
  dpc = "done" =>
    /\ \A c \in Cells : ResultsOver(c) = IF InChild(c) THEN 0 ELSE 1
    /\ \A q \in Points :
         \/ \E i \in 1 .. Len(segs) : Lo(segs[i]) <= q /\ q <= Hi(segs[i])
         \/ \E j \in 1 .. Len(result) : Lo(result[j]) <= q /\ q <= Hi(result[j])
    /\ \A j \in 1 .. Len(result) :
         /\ Lo(parent_segment) <= Lo(result[j])
         /\ Lo(result[j]) <= Hi(result[j])
         /\ Hi(result[j]) <= Hi(parent_segment)
         /\ IF Along
            THEN result[j].ylo = parent_segment.ylo
                 /\ result[j].yhi = parent_segment.yhi
            ELSE result[j].xlo = parent_segment.xlo
                 /\ result[j].xhi = parent_segment.xhi
    /\ \A j, k \in 1 .. Len(result) : j < k => Hi(result[j]) <= Lo(result[k])
    /\ TotalLength(result) + Cardinality({c \in Cells : InChild(c)})
         = Hi(parent_segment) - Lo(parent_segment)

\* C7 witness: three children given out of order, one inside another and
\* the third apart from both, with the gap between them returned.
C7_Witness ==
  /\ dpc = "done" /\ Len(segs) = 3 /\ Len(result) >= 1
  /\ Lo(segs[1]) > Lo(segs[2])
  /\ \E i, j, k \in 1 .. 3 :
       /\ Lo(segs[i]) < Lo(segs[j]) /\ Hi(segs[j]) < Hi(segs[i])
       /\ Hi(segs[i]) < Lo(segs[k])

\* C8: with the parent itself as the only child, the call returns the
\* empty list.
C8_ParentMinusItselfIsEmpty ==
  (dpc = "done" /\ segs = <<parent_segment>>) => result = <<>>

\* C8 witness: such a call on a parent of positive length has returned.
C8_Witness ==
  /\ dpc = "done" /\ segs = <<parent_segment>>
  /\ Hi(parent_segment) > Lo(parent_segment)

---------------------------------------------------------------------------
(***************************************************************************)
(* Properties of Optdp::createNetwork (checked under SpecNetwork).         *)
(***************************************************************************)
\* A run of createNetwork that follows an earlier one.
Rerun == runs > 0 /\ runs' = runs + 1

\* The ids given out: every node, edge and pin with its id and what it
\* stands for, and the maps from database objects to them.
SameIds ==
  /\ network_'.nodes = network_.nodes
  /\ network_'.edges = network_.edges
  /\ network_'.pins = network_.pins
  /\ instMap_' = instMap_ /\ termMap_' = termMap_ /\ netMap_' = netMap_

\* C9 as stated: a run gives every node, edge and pin the id the run before
\* gave it, whatever order the database hands out its instances, nets and
\* terminals in at either run.
C9_IdsWhateverDbOrder == [][Rerun => SameIds]_vars

\* C9 amended: a run gives every node, edge and pin the id the run before
\* gave it, whatever order the database hands out its instances in at
\* either run, when it hands out its nets, its terminals and each net's
\* iterms in the same order at both.
C9_IdsWhateverInstOrder ==
  [][(Rerun /\ dbOrder' = dbOrder) => SameIds]_vars

\* C9 witness: a second run has built a network with two cells, two edges
\* and pins on both edges.
C9_Witness ==
  /\ runs >= 2 /\ err = 0
  /\ Len(network_.edges) >= 2
  /\ Cardinality({k \in DOMAIN network_.nodes :
                    network_.nodes[k].type = "CELL"}) >= 2
  /\ \A e \in DOMAIN network_.edges :
       \E k \in DOMAIN network_.pins : network_.pins[k].edge = e - 1

\* C10: after a run, a filled count that differs from its pre-computed
\* count has ended the run with error 101 (nodes), 106 (edges) or 107
\* (pins); and on these databases, whose nets list exactly the terminals
\* that name them, no run ends with an error, the filled counts equal the
\* pre-computed ones, and the network holds that many nodes, edges and pins.
C10_CountsAgree ==
  runs > 0 =>
    /\ filled.n # counts.nNodes + counts.nTerminals => err = 101
    /\ (err \notin 101 .. 105 /\ filled.e # counts.nEdges) => err = 106
    /\ (err \notin 101 .. 106 /\ filled.p # counts.nPins) => err = 107
    /\ err = 0
    /\ filled = [n |-> counts.nNodes + counts.nTerminals,
                 e |-> counts.nEdges, p |-> counts.nPins]
    /\ Len(network_.nodes) = filled.n
    /\ Len(network_.edges) = filled.e
    /\ Len(network_.pins) = filled.p
    /\ \A k \in DOMAIN network_.nodes : network_.nodes[k].type # "UNKNOWN"

\* C10 witness: a run over a block with a non-placeable instance, a supply
\* net and a terminal has counted and filled cells, a terminal and pins.
C10_Witness ==
  /\ runs > 0 /\ err = 0
  /\ \E inst \in Insts : db.kind[inst] = "pad"
  /\ db.supply # {}
  /\ counts.nNodes >= 1 /\ counts.nTerminals >= 1 /\ counts.nPins >= 2

\* C18 as stated: after a run, every instance that has become a CELL node,
\* fixed or movable, has the orientation R0 in the database, so a node
\* recorded with R0 stands for an instance whose database orientation is R0.
C18_CellOrientIsDbOrient ==
  runs > 0 =>
    \A k \in DOMAIN network_.nodes :
      (network_.nodes[k].type = "CELL" /\ network_.nodes[k].orient = "R0")
        => db.orient[network_.nodes[k].obj] = "R0"

---------------------------------------------------------------------------
(***************************************************************************)
(* Properties of Optdp::createArchitecture (checked under SpecImport).     *)
(***************************************************************************)
\* createArchitecture has run.
Built == ipc \in {"setUpPlacementGroups", "done"}

\* The rows whose site is higher than the least site height over all rows
TallRows ==
  {i \in DOMAIN block.rows :
     \E j \in DOMAIN block.rows :
       block.rows[j].site.height < block.rows[i].site.height}

\* The rows that are horizontal and whose site is not a pad site
CoreRows ==
  {i \in DOMAIN block.rows :
     block.rows[i].site.class # "PAD" /\ block.rows[i].dir = "HORIZONTAL"}

\* A warning 108 for the height of row i names the site of row i.
Reported(i) ==
  \E k \in DOMAIN warn :
    /\ warn[k].code = 108
    /\ warn[k].height = block.rows[i].site.height
    /\ block.rows[i].site.name \in warn[k].sites

\* The rows of the architecture are the horizontal non-pad rows of the
\* least site height, in the order of the block, and no other row.
RowsOfLeastHeight ==
  LET kept == SelectSeq([i \in DOMAIN block.rows |-> i],
                        LAMBDA i : i \in CoreRows \ TallRows)
  IN  /\ Len(arch_.rows) = Len(kept)
      /\ \A k \in DOMAIN kept :
           LET row == block.rows[kept[k]]
           IN  /\ arch_.rows[k].bottom = row.origin.y - block.core.yMin
               /\ arch_.rows[k].height = row.site.height
               /\ arch_.rows[k].siteWidth = row.site.width
               /\ arch_.rows[k].siteSpacing = row.spacing

C13_RowsWithinBox ==
  Built =>
    \A r \in DOMAIN arch_.rows :
      LET row == arch_.rows[r]
      IN  /\ arch_.minX <= row.subRowOrigin
          /\ row.subRowOrigin + row.numSites * row.siteSpacing
               + (row.siteWidth - row.siteSpacing) <= arch_.maxX
          /\ row.numSites >= 0

\* The class a rail stamps
ClassOf(rail) == IF rail.sig = "POWER" THEN Power_VDD ELSE Power_VSS

\* A power rail: a box of a routed special wire of a POWER or GROUND net
\* that is horizontal, no via, and on a layer setupMasterPowers recorded
\* for its signal type.
IsPowerRail(rail) ==
  /\ rail.special /\ rail.sig \in {"POWER", "GROUND"}
  /\ rail.wire = "ROUTED" /\ rail.dir = "HORIZONTAL" /\ ~ rail.via
  /\ rail.layer \in MasterLayers(block.masters, rail.sig)

\* The top or the bottom edge of the rail, in the coordinates of the row
\* (relative to the lower-left corner of the core), lies within the row's
\* [bottom, top].
EdgeInRow(rail, row) ==
  \E y \in {yMin(rail.box) - block.core.yMin,
             yMax(rail.box) - block.core.yMin} :
    row.bottom <= y /\ y <= row.bottom + row.height

\* C19 as stated: a row carries the power class of a rail (VDD for POWER,
\* VSS for GROUND) exactly when the top or the bottom edge of the rail, in
\* the core-relative coordinates of the row, lies within the row's
\* [bottom, top]; a row no rail touches keeps both powers unknown.
C19_StampedWhenRailEdgeInRow ==
  Built =>
    \A r \in DOMAIN arch_.rows :
      LET row == arch_.rows[r]
          touching == {k \in DOMAIN block.rails :
                         /\ IsPowerRail(block.rails[k])
                         /\ EdgeInRow(block.rails[k], row)}
      IN  IF touching = {}
          THEN row.bottomPower = Power_UNK /\ row.topPower = Power_UNK
          ELSE \E k \in touching :
                 ClassOf(block.rails[k]) \in {row.bottomPower, row.topPower}

\* C20 as stated: when createArchitecture scans the special wires,
\* pwrLayers_ and gndLayers_ hold every layer setupMasterPowers recorded,
\* so a power rail whose span holds the bottom or the top of a row leaves
\* that row with VDD or VSS rather than unknown.
C20_LayersReachTheScan ==
  /\ ipc \in {"createArchitecture", "done"} =>
       /\ MasterLayers(block.masters, "POWER") \subseteq pwrLayers_
       /\ MasterLayers(block.masters, "GROUND") \subseteq gndLayers_
  /\ Built =>
       \A r \in DOMAIN arch_.rows : \A k \in DOMAIN block.rails :
         LET row == arch_.rows[r]
             rect == moveDelta(block.rails[k].box, block.core.xMin,
                               block.core.yMin)
         IN  /\ (/\ IsPowerRail(block.rails[k])
                 /\ yMin(rect) <= row.bottom /\ row.bottom <= yMax(rect))
                  => row.bottomPower # Power_UNK
             /\ (/\ IsPowerRail(block.rails[k])
                 /\ yMin(rect) <= getTop(row) /\ getTop(row) <= yMax(rect))
                  => row.topPower # Power_UNK

---------------------------------------------------------------------------
(***************************************************************************)
(* Properties of Optdp::setUpPlacementGroups (checked under SpecGroups).   *)
(***************************************************************************)
\* The groups with a region that list the instance, by their place in the
\* iteration over the groups
ClaimingGroups(inst) ==
  {g \in DOMAIN block.groups :
     /\ block.groups[g].hasRegion
     /\ \E j \in DOMAIN block.groups[g].insts :
          block.groups[g].insts[j] = inst}

\* The id of the region of group g: the default region is 0 and the
\* groups with a region are numbered from 1 in iteration order.
RegionIdOf(g) ==
  Cardinality({f \in 1 .. g : block.groups[f].hasRegion})

\* C14: after setUpPlacementGroups a cell node carries the id of the
\* region of the first group, in iteration order, that has a region and
\* lists its instance, whatever later groups list it too; a node whose
\* instance no such group lists, and every terminal node, has group id 0.
C14_FirstClaimWins ==
  ipc = "done" =>
    \A k \in DOMAIN network_.nodes :
      LET nd == network_.nodes[k]
          claiming == IF nd.type = "CELL" THEN ClaimingGroups(nd.obj) ELSE {}
      IN  IF claiming = {} THEN nd.group = 0
          ELSE /\ nd.group = RegionIdOf(CHOOSE g \in claiming :
                                          \A f \in claiming : g <= f)
               /\ nd.group > 0
               /\ \E r \in DOMAIN arch_.regions :
                    arch_.regions[r].id = nd.group

\* C14 witness: two groups with a region list the same instance, whose
\* node carries the id of the first; another cell is in no group.
C14_Witness ==
  /\ ipc = "done"
  /\ \E k \in DOMAIN network_.nodes :
       /\ network_.nodes[k].type = "CELL"
       /\ Cardinality(ClaimingGroups(network_.nodes[k].obj)) >= 2
       /\ network_.nodes[k].group = 1
  /\ \E k \in DOMAIN network_.nodes :
       /\ network_.nodes[k].type = "CELL"
       /\ ClaimingGroups(network_.nodes[k].obj) = {}

---------------------------------------------------------------------------
(***************************************************************************)
(* Properties of Optdp::improvePlacement (checked under SpecImprove).      *)
(***************************************************************************)
\* C11: when the wirelength of the block is 0 at the start, the run ends
\* after reporting the skip: no import, no legalization, no pass and no
\* write-back happens, no setter of an instance is called, the database is
\* as it was, and neither the Network nor the Architecture is made.
C11_ZeroWirelengthSkips ==
  hpwl(db0) = 0 =>
    /\ rpc \in {"improvePlacement", "returned"}
    /\ steps \in {<<>>, <<"skip">>}
    /\ rpc = "returned" => steps = <<"skip">>
    /\ writes = <<>>
    /\ db = db0
    /\ network_ = <<>> /\ arch_ = <<>> /\ ipc = "idle"
    /\ instMap_ = <<>> /\ pwrLayers_ = {} /\ masterPwrs_ = <<>>

\* C11 witness: a run on a block of wirelength 0 with a movable cell that
\* is not in orientation R0 has returned.
C11_Witness ==
  /\ rpc = "returned" /\ hpwlBefore = 0 /\ steps = <<"skip">>
  /\ \E inst \in Insts : db.kind[inst] = "cell" /\ db.orient[inst] = "MX"

\* The calls of a setter made on an instance
CallsOn(inst, call) ==
  {k \in DOMAIN writes : writes[k].inst = inst /\ writes[k].call = call}

\* The instance is core-placeable and not fixed.
Movable(inst) == db0.kind[inst] = "cell"

\* The instance is in the database as it was when the run was entered.
Unchanged(inst) ==
  db.loc[inst] = db0.loc[inst] /\ db.orient[inst] = db0.orient[inst]

\* C15 as stated: over a whole run a setter is called only on movable
\* core-placeable instances and only on those whose final location or
\* orientation differs from the one before the run; fixed instances,
\* non-placeable instances and unchanged movable instances get no call at
\* all, import included.
C15_WritesOnlyWhenChanged ==
  rpc = "returned" =>
    \A k \in DOMAIN writes :
      Movable(writes[k].inst) /\ ~ Unchanged(writes[k].inst)

\* The parts of a run on a block of wirelength other than 0, in order
WholeRun ==
  <<"import", "legalize", "mis", "gs", "vs", "ro", "default">>
  \o (IF block.hasOneSiteMaster THEN <<>>
      ELSE <<"disallow_one_site_gaps">>)
  \o <<"write-back">>

\* C16: on a block of wirelength other than 0 the parts of the run happen
\* in this order: import, legalization, the passes mis, gs, vs, ro and
\* default, then write-back; the directive disallow_one_site_gaps follows
\* the five passes exactly when the database has no one-site-wide master.
C16_PartsInOrder ==
  hpwl(db0) # 0 =>
    /\ Len(steps) <= Len(WholeRun)
    /\ steps = SubSeq(WholeRun, 1, Len(steps))
    /\ rpc \in {"cleanup", "returned"} => steps = WholeRun

\* C16 witness: a run on a block without a one-site-wide master has
\* returned after the directive.
C16_Witness ==
  /\ rpc = "returned"
  /\ ~ block.hasOneSiteMaster
  /\ Len(steps) = 9 /\ steps[8] = "disallow_one_site_gaps"

\* A pass of the default script is run.
PassStep ==
  /\ rpc = "improve" /\ script_ # <<>> /\ script_' = Tail(script_)
  /\ Head(script_).name # "disallow_one_site_gaps"

---------------------------------------------------------------------------
(***************************************************************************)
(* Properties of the node fields createNetwork fills in.                   *)
(***************************************************************************)
\* createNetwork has run in this import.
Imported == ipc \in {"createArchitecture", "setUpPlacementGroups", "done"}

\* The terminals of one signal type of master m of the block, and the y
\* centres of their pins
TermsOf(m, sig) ==
  {t \in DOMAIN block.masters[m] : block.masters[m][t].sig = sig}
PinCentres(m, sig) ==
  UNION {{block.masters[m][t].mpins[p].y :
            p \in DOMAIN block.masters[m][t].mpins} : t \in TermsOf(m, sig)}
Highest(S) == CHOOSE x \in S : \A y \in S : y <= x
Lowest(S) == CHOOSE x \in S : \A y \in S : x <= y

\* C25: a master with a POWER and a GROUND terminal has top power VDD
\* exactly when its highest POWER pin centre is strictly above its highest
\* GROUND pin centre (else VSS) and bottom power VDD exactly when its
\* lowest POWER pin centre is strictly below its lowest GROUND pin centre
\* (else VSS); a master lacking either kind of terminal has unknown for
\* both; every CELL node has the top and the bottom power of its master.
C25_PowersByPinHeight ==
  /\ masterPwrs_ # <<>> =>
       \A m \in DOMAIN block.masters :
         IF TermsOf(m, "POWER") # {} /\ TermsOf(m, "GROUND") # {}
         THEN /\ masterPwrs_[m][1] = Power_VDD
                   <=> Highest(PinCentres(m, "POWER"))
                         > Highest(PinCentres(m, "GROUND"))
              /\ masterPwrs_[m][2] = Power_VDD
                   <=> Lowest(PinCentres(m, "POWER"))
                         < Lowest(PinCentres(m, "GROUND"))
              /\ {masterPwrs_[m][1], masterPwrs_[m][2]}
                   \subseteq {Power_VDD, Power_VSS}
         ELSE masterPwrs_[m] = <<Power_UNK, Power_UNK>>
  /\ Imported =>
       \A k \in DOMAIN network_.nodes :
         network_.nodes[k].type = "CELL" =>
           /\ network_.nodes[k].topPower
                = masterPwrs_[db.master[network_.nodes[k].obj]][1]
           /\ network_.nodes[k].bottomPower
                = masterPwrs_[db.master[network_.nodes[k].obj]][2]

\* C25 witness: after createNetwork a CELL node has top power VDD and
\* bottom power VSS, from a master whose POWER pin lies above its GROUND pin.
C25_Witness ==
  /\ Imported
  /\ \E k \in DOMAIN network_.nodes :
       /\ network_.nodes[k].type = "CELL"
       /\ network_.nodes[k].topPower = Power_VDD
       /\ network_.nodes[k].bottomPower = Power_VSS
       /\ Lowest(PinCentres(db.master[network_.nodes[k].obj], "POWER"))
            > Lowest(PinCentres(db.master[network_.nodes[k].obj], "GROUND"))

\* C27: every TERMINAL node has the width and the height of the bounding
\* box of its database terminal (xMax - xMin and yMax - yMin) and lies at
\* the lower-left corner of that box, relative to the core.
C27_TerminalHasBoxSize ==
  \A k \in DOMAIN network_.nodes :
    network_.nodes[k].type = "TERMINAL" =>
      LET bterm == network_.nodes[k].obj IN
      /\ network_.nodes[k].width = db.btermSize[bterm].w
      /\ network_.nodes[k].height = db.btermSize[bterm].h
      /\ network_.nodes[k].left = db.btermLoc[bterm].x - block.core.xMin
      /\ network_.nodes[k].bottom = db.btermLoc[bterm].y - block.core.yMin

---------------------------------------------------------------------------
(***************************************************************************)
(* Properties of getMaster (checked under SpecMaster).                     *)
(***************************************************************************)
\* The database masters getMaster built a Master with edges for: a
\* spacing table is present and the master is not a fillcell.
EdgedMasters ==
  {m \in DOMAIN masterMap_ :
     db.table.has /\ db.lib[m].type # "CORE_SPACER"}

\* The Master object getMaster built for database master m in this run
MasterOf(m) == network_.masters[masterMap_[m].idx]

\* The row height of the block
RowHeight == block.rows[1].site.height

\* The ends of a side of a bounding box along the side, and the line the
\* side lies on
SideLo(bbox, dir) == IF dir \in {"TOP", "BOTTOM"} THEN bbox.xlo ELSE bbox.ylo
SideHi(bbox, dir) == IF dir \in {"TOP", "BOTTOM"} THEN bbox.xhi ELSE bbox.yhi
OnSide(r, bbox, dir) ==
  CASE dir = "TOP"    -> r.ylo = bbox.yhi /\ r.yhi = bbox.yhi
    [] dir = "BOTTOM" -> r.ylo = bbox.ylo /\ r.yhi = bbox.ylo
    [] dir = "LEFT"   -> r.xlo = bbox.xlo /\ r.xhi = bbox.xlo
    [] dir = "RIGHT"  -> r.xlo = bbox.xhi /\ r.xhi = bbox.xhi

\* The stretch from c to c + 1 of a side lies within segment r.
CoversCell(r, dir, c) ==
  IF dir \in {"TOP", "BOTTOM"} THEN r.xlo <= c /\ c + 1 <= r.xhi
  ELSE r.ylo <= c /\ c + 1 <= r.yhi

\* C24: a TOP or BOTTOM edge type with range [begin, end] is stored as the
\* segment from bbox.xMin + begin to bbox.xMin + end, and a LEFT or RIGHT
\* edge type of cell row (half row) k as the segment from
\* bbox.yMin + (k - 1) * h to min(bbox.yMax, bbox.yMin + k * h), h the row
\* height (half the row height).
C24_SegmentsInAbsoluteCoordinates ==
  Imported =>
    \A m \in EdgedMasters :
      LET bbox == db.lib[m].bbox
          known == SelectSeq(db.lib[m].edges,
                             LAMBDA edge : edge.type \in DOMAIN db.table.idx)
      IN  \A k \in DOMAIN known :
            LET edge == known[k]
                r == MasterOf(m).edges[k].rect
                h == IF edge.cellRow # -1 THEN RowHeight
                     ELSE RowHeight \div 2
                row == IF edge.cellRow # -1 THEN edge.cellRow
                       ELSE edge.halfRow
            IN  /\ (edge.dir \in {"TOP", "BOTTOM"} /\ edge.rangeBegin # -1) =>
                     /\ r.xlo = bbox.xlo + edge.rangeBegin
                     /\ r.xhi = bbox.xlo + edge.rangeEnd
                /\ (edge.dir \in {"LEFT", "RIGHT"} /\ row # -1) =>
                     /\ r.ylo = bbox.ylo + (row - 1) * h
                     /\ r.yhi = Min(bbox.yhi, bbox.ylo + row * h)

\* C28: every typed segment handed to difference lies on the line of the
\* parent segment of its side and within it: parent start <= child start
\* <= child end <= parent end.
C28_ChildrenInsideParent ==
  Imported =>
    \A m \in EdgedMasters :
      getEdgeTypeIdx(db, "DEFAULT") # -1 =>
        \A i \in DOMAIN EdgeDirs :
          LET dir == EdgeDirs[i]
              parent == getBoundarySegment(db.lib[m].bbox, dir)
              children == TypedSegs(db.lib[m], block.rows, dir)
          IN  \A k \in DOMAIN children :
                /\ OnSide(children[k], db.lib[m].bbox, dir)
                /\ SideLo(parent, dir) <= SideLo(children[k], dir)
                /\ SideLo(children[k], dir) <= SideHi(children[k], dir)
                /\ SideHi(children[k], dir) <= SideHi(parent, dir)

\* C21: on each of the four sides of a master built with edges, every
\* stretch of the side lies within exactly one stored edge of that side,
\* and no stored edge of the side reaches beyond the side.
C21_EdgesPartitionEverySide ==
  Imported =>
    \A m \in EdgedMasters :
      \A i \in DOMAIN EdgeDirs :
        LET dir == EdgeDirs[i]
            bbox == db.lib[m].bbox
            stored == MasterOf(m).edges
            side == {k \in DOMAIN stored : OnSide(stored[k].rect, bbox, dir)}
        IN  /\ \A c \in SideLo(bbox, dir) .. (SideHi(bbox, dir) - 1) :
                 Cardinality({k \in side :
                                CoversCell(stored[k].rect, dir, c)}) = 1
            /\ \A k \in side :
                 /\ SideLo(bbox, dir) <= SideLo(stored[k].rect, dir)
                 /\ SideHi(stored[k].rect, dir) <= SideHi(bbox, dir)

\* C29: within one run every instance of one database master gets the same
\* Master from getMaster, fillcells included, and the Master of a
\* fillcell has no edges.
C29_OneMasterPerFootprint ==
  Imported =>
    /\ \A j, k \in DOMAIN network_.nodes :
         (/\ network_.nodes[j].type = "CELL"
          /\ network_.nodes[k].type = "CELL"
          /\ db.master[network_.nodes[j].obj] = db.master[network_.nodes[k].obj])
           => network_.nodes[j].master = network_.nodes[k].master
    /\ \A m \in DOMAIN masterMap_ :
         db.lib[m].type = "CORE_SPACER" => MasterOf(m).edges = <<>>

---------------------------------------------------------------------------
(***************************************************************************)
(* Properties of the lifetime of the Network (checked under SpecRuns).     *)
(***************************************************************************)
\* Every Master a node has was built by the run that built the node.
NoMasterOfAnEarlierRun ==
  network_ # <<>> =>
    \A k \in DOMAIN network_.nodes :
      network_.nodes[k].master # NullMaster =>
        network_.nodes[k].master.gen = runs

\* C22: after improvePlacement has returned from a run that built a
\* Network, the instance, terminal, net and master lookup tables hold
\* nothing of the deleted Network; and every Master a node has was built
\* by the run that built the node, never by an earlier run.
C22_NothingSurvivesTheRun ==
  /\ (rpc = "returned" /\ runs > 0) =>
       /\ instMap_ = <<>> /\ termMap_ = <<>> /\ netMap_ = <<>>
       /\ masterMap_ = <<>>
  /\ NoMasterOfAnEarlierRun

===========================================================================
